---------------------------- MODULE Spec2Model ----------------------------
(***************************************************************************)
(* A model of ReasonOS: the accounting ledger, the rule verifier, the      *)
(* policy engine and the kernel's paper-verification pipeline.             *)
(*                                                                         *)
(* Confidences, risks and penalties are fixed-point numbers in hundredths  *)
(* (0.95 is 95, 1.0 is 100); percentages of claims and evidence are in     *)
(* tenths (14.8 percent is 148).  A Python dict is a function from its     *)
(* keys: a key the dict lacks is not in its DOMAIN.                        *)
(***************************************************************************)
EXTENDS Integers, Sequences, FiniteSets, TLC

VARIABLES
    ledger,       \* the AccountingLedger object
    ledgerCalls,  \* how many add_cost and add_risk calls were made
    lastOp,       \* the ledger method called last
    vstep,        \* verify_step: the step dict handed in
    vstep0,       \* verify_step: the step dict as it was at the call
    vout,         \* verify_step: what the call did (raise or return)
    efPolicy,     \* enforce_finalization_policy: the policy dict
    efSteps,      \* enforce_finalization_policy: the steps list
    efConclusion, \* enforce_finalization_policy: the final_conclusion dict
    efInput,      \* enforce_finalization_policy: steps and conclusion at the call
    efLocal,      \* enforce_finalization_policy: should_block and block_reason
    args,         \* run_paper_verification_task: the arguments of the call
    fs,           \* the files: the document, the policy file, the memory file
    fsAtStart,    \* the files as they were when the run started
    pc,           \* run_paper_verification_task: the statement reached
    frame,        \* run_paper_verification_task: the local variables
    outcome,      \* run_paper_verification_task: the raise or the return
    idCounter,    \* how many ids utils/ids.py has handed out
    call,         \* a call of one function on its own: its name and arguments
    ret,          \* that call's result
    spPolicy,     \* apply_step_policy: the policy dict
    spSteps,      \* apply_step_policy: the steps list
    spSteps0,     \* apply_step_policy: the steps list before the first call
    spApplied,    \* apply_step_policy: how many times it was applied
    msFile,       \* memory_store: the file at the memory path
    msLast,       \* memory_store: the call made last and the file before it
    writers       \* memory_store: the append_memory calls in progress

ledgerVars == <<ledger, ledgerCalls, lastOp>>

verifyVars == <<vstep, vstep0, vout>>

enforceVars == <<efPolicy, efSteps, efConclusion, efInput, efLocal>>

kernelVars == <<args, fs, fsAtStart, pc, frame, outcome, idCounter>>

callVars == <<call, ret>>

stepPolicyVars == <<spPolicy, spSteps, spSteps0, spApplied>>

storeVars == <<msFile, msLast, writers>>

vars == <<ledger, ledgerCalls, lastOp, vstep, vstep0, vout,
          efPolicy, efSteps, efConclusion, efInput, efLocal,
          args, fs, fsAtStart, pc, frame, outcome, idCounter,
          call, ret, spPolicy, spSteps, spSteps0, spApplied,
          msFile, msLast, writers>>

notLedgerVars == <<verifyVars, enforceVars, kernelVars, callVars, stepPolicyVars, storeVars>>

notVerifyVars == <<ledgerVars, enforceVars, kernelVars, callVars, stepPolicyVars, storeVars>>

notEnforceVars == <<ledgerVars, verifyVars, kernelVars, callVars, stepPolicyVars, storeVars>>

notKernelVars == <<ledgerVars, verifyVars, enforceVars, callVars, stepPolicyVars, storeVars>>

notCallVars == <<ledgerVars, verifyVars, enforceVars, kernelVars, stepPolicyVars, storeVars>>

notStepPolicyVars == <<ledgerVars, verifyVars, enforceVars, kernelVars, callVars, storeVars>>

notStoreVars == <<ledgerVars, verifyVars, enforceVars, kernelVars, callVars, stepPolicyVars>>

None == "None"

\* dict.get(k, default)
Get(d, k, default) == IF k \in DOMAIN d THEN d[k] ELSE default

\* d[k] = v on a dict that may lack k
Put(d, k, v) == (k :> v) @@ d

Max(a, b) == IF a >= b THEN a ELSE b

Min(a, b) == IF a <= b THEN a ELSE b

(***************************************************************************)
(* Bounds of the model.                                                    *)
(***************************************************************************)
MaxAdjustments == 3

MaxCostCalls == 2

MaxRiskCalls == 2

(***************************************************************************)
(* accounting/ledger.py                                                    *)
(***************************************************************************)
BaseConfidences == {0 - 20, 0, 30, 90, 120}

Deltas == {0 - 50, 10, 40}

CostAmounts == {1, 5}

RiskAmounts == {10, 50}

\* AccountingLedger.__init__
NewLedger(base) ==
    [ total_cost |-> 0,
      total_risk |-> 0,
      base_confidence |-> base,
      confidence_adjustments |-> <<>>,
      final_confidence |-> base,
      is_blocked |-> FALSE ]

\* the loop "for adj in self.confidence_adjustments: conf += adj['delta']"
RECURSIVE AddDeltas(_, _)
AddDeltas(conf, adjs) ==
    IF adjs = <<>> THEN conf
    ELSE AddDeltas(conf + Head(adjs).delta, Tail(adjs))

recompute_ignoring_block(l) ==
    [l EXCEPT !.final_confidence =
        Max(0, Min(100, AddDeltas(l.base_confidence, l.confidence_adjustments)))]

\* AccountingLedger._recompute_final_confidence
recompute_final_confidence(l) ==
    IF l.is_blocked
    THEN [l EXCEPT !.final_confidence = 0]
    ELSE [l EXCEPT !.final_confidence =
            Max(0, Min(100, AddDeltas(l.base_confidence, l.confidence_adjustments)))]

set_base_without_recompute(l, confidence) ==
    [l EXCEPT !.base_confidence = confidence]

\* AccountingLedger.set_base_confidence
set_base_confidence(l, confidence) ==
    recompute_final_confidence([l EXCEPT !.base_confidence = confidence])

\* AccountingLedger.add_cost
add_cost(l, amount) ==
    [l EXCEPT !.total_cost = @ + amount]

\* AccountingLedger.add_risk
add_risk(l, amount) ==
    [l EXCEPT !.total_risk = @ + amount]

\* AccountingLedger.adjust_confidence
adjust_confidence(l, delta, source, reason) ==
    recompute_final_confidence(
        [l EXCEPT !.confidence_adjustments =
            Append(@, [source |-> source, delta |-> delta, reason |-> reason])])

force_block_keeping_risk(l) ==
    LET current_conf == l.final_confidence
        adjs == IF current_conf > 0
                THEN Append(l.confidence_adjustments,
                            [source |-> "policy_block",
                             delta |-> 0 - current_conf,
                             reason |-> "Policy forced block"])
                ELSE l.confidence_adjustments
    IN  [l EXCEPT !.is_blocked = TRUE,
                  !.confidence_adjustments = adjs,
                  !.final_confidence = 0]

\* force_block recording the adjustment whatever the confidence is
force_block_always_recording(l) ==
    [l EXCEPT !.is_blocked = TRUE,
              !.total_risk = 100,
              !.confidence_adjustments =
                  Append(@, [source |-> "policy_block",
                             delta |-> 0 - l.final_confidence,
                             reason |-> "Policy forced block"]),
              !.final_confidence = 0]

\* AccountingLedger.force_block
force_block(l) ==
    LET current_conf == l.final_confidence
        adjs == IF current_conf > 0
                THEN Append(l.confidence_adjustments,
                            [source |-> "policy_block",
                             delta |-> 0 - current_conf,
                             reason |-> "Policy forced block"])
                ELSE l.confidence_adjustments
    IN  [l EXCEPT !.is_blocked = TRUE,
                  !.total_risk = 100,
                  !.confidence_adjustments = adjs,
                  !.final_confidence = 0]

SetBaseConfidence ==
    \E c \in BaseConfidences :
        /\ ledger' = set_base_confidence(ledger, c)
        /\ lastOp' = "set_base_confidence"
        /\ UNCHANGED <<ledgerCalls, notLedgerVars>>

AddCost ==
    \E a \in CostAmounts :
        /\ ledgerCalls.cost < MaxCostCalls
        /\ ledger' = add_cost(ledger, a)
        /\ ledgerCalls' = [ledgerCalls EXCEPT !.cost = @ + 1]
        /\ lastOp' = "add_cost"
        /\ UNCHANGED notLedgerVars

AddRisk ==
    \E a \in RiskAmounts :
        /\ ledgerCalls.risk < MaxRiskCalls
        /\ ledger' = add_risk(ledger, a)
        /\ ledgerCalls' = [ledgerCalls EXCEPT !.risk = @ + 1]
        /\ lastOp' = "add_risk"
        /\ UNCHANGED notLedgerVars

AdjustConfidence ==
    \E d \in Deltas :
        /\ Len(ledger.confidence_adjustments) < MaxAdjustments
        /\ ledger' = adjust_confidence(ledger, d, "policy", "penalty")
        /\ lastOp' = "adjust_confidence"
        /\ UNCHANGED <<ledgerCalls, notLedgerVars>>

ForceBlock ==
    /\ ledger' = force_block(ledger)
    /\ lastOp' = "force_block"
    /\ UNCHANGED <<ledgerCalls, notLedgerVars>>

(***************************************************************************)
(* Claims about the accounting ledger.                                     *)
(***************************************************************************)
RECURSIVE C7_SumOfDeltas(_)
C7_SumOfDeltas(adjs) ==
    IF adjs = <<>> THEN 0
    ELSE C7_SumOfDeltas(SubSeq(adjs, 1, Len(adjs) - 1)) + adjs[Len(adjs)].delta

C7_clamp01(c) == IF c < 0 THEN 0 ELSE IF c > 100 THEN 100 ELSE c

\* C7: in every state of a ledger created with base confidence 0,
\* final_confidence is C7_clamp01(base_confidence + the sum of all recorded
\* deltas) while the ledger is not blocked and 0.0 once it is blocked, so it
\* always lies in [0, 1].
C7_FinalConfidenceIsClampedSum ==
    /\ ledger.final_confidence =
          IF ledger.is_blocked THEN 0
          ELSE C7_clamp01(ledger.base_confidence
                       + C7_SumOfDeltas(ledger.confidence_adjustments))
    /\ ledger.final_confidence >= 0
    /\ ledger.final_confidence <= 100

C7_Witness ==
    /\ ~ledger.is_blocked
    /\ lastOp = "add_risk"
    /\ Len(ledger.confidence_adjustments) >= 2
    /\ ledger.base_confidence + C7_SumOfDeltas(ledger.confidence_adjustments) > 100
    /\ ledger.final_confidence = 100

\* C8: immediately after force_block, whatever the cost, risk, base
\* confidence and adjustments were, final_confidence is 0.0, total_risk is
\* 1.0 and is_blocked is true.
C8_ForceBlockPostcondition ==
    lastOp = "force_block" =>
        /\ ledger.final_confidence = 0
        /\ ledger.total_risk = 100
        /\ ledger.is_blocked

C8_Witness ==
    /\ lastOp = "force_block"
    /\ ledger.total_cost > 0
    /\ ledgerCalls.risk > 0
    /\ ledger.base_confidence > 0
    /\ Len(ledger.confidence_adjustments) >= 2
    /\ ledger.confidence_adjustments[Len(ledger.confidence_adjustments)].source
          = "policy_block"

\* C9: force_block is terminal: once the ledger is blocked, no later call of
\* set_base_confidence, adjust_confidence, add_cost, add_risk or force_block
\* moves final_confidence away from 0.0 or clears is_blocked.
C9_ForceBlockIsTerminal ==
    [][ledger.is_blocked =>
          (ledger'.is_blocked /\ ledger'.final_confidence = 0)]_vars

C9_Witness ==
    /\ ledger.is_blocked
    /\ lastOp = "adjust_confidence"
    /\ ledger.base_confidence
          + C7_SumOfDeltas(ledger.confidence_adjustments) > 0
    /\ ledger.final_confidence = 0

(***************************************************************************)
(* rsl.py and verifiers/rule_verifier.py: verify_step                      *)
(***************************************************************************)
MaxEvidence == 2

EmptyDict == [k \in {} |-> None]

\* the dict d without the keys in ks
Without(d, ks) == [k \in (DOMAIN d) \ ks |-> d[k]]

\* rsl.build_verification (verified_at, a wall-clock reading, is left out)
build_verification(result, confidence, checked_evidence_ids, notes) ==
    LET verification == [ result |-> result,
                          confidence |-> confidence,
                          checked_evidence_ids |-> checked_evidence_ids ]
    IN  IF notes = <<>> THEN verification
        ELSE Put(verification, "notes", notes)

\* rsl.build_evidence
build_evidence(evidence_id, source, content) ==
    [ evidence_id |-> evidence_id, source |-> source, content |-> content ]

\* utils/ids.py: the n-th id handed out; `kind` is the generator's prefix
NewId(kind, n) == kind \o "_" \o ToString(n)

Raise(error, message) == [raised |-> TRUE, error |-> error, message |-> message]

Return(value) == [raised |-> FALSE, value |-> value]

\* Python's None in a place that otherwise holds a text
NoText == <<None>>

required_fields == <<"step_id", "action", "status", "executor">>

\* the loop "for field in required_fields: if field not in step: raise"
RECURSIVE first_missing_field(_, _)
first_missing_field(step, i) ==
    IF i > Len(required_fields) THEN None
    ELSE IF required_fields[i] \notin DOMAIN step THEN required_fields[i]
    ELSE first_missing_field(step, i + 1)

verify_step_without_output_check(step) ==
    LET missing == first_missing_field(step, 1)
        evidence_required == Get(step, "evidence_required", FALSE)
        evidence == Get(step, "evidence", <<>>)
    IN  IF missing # None
        THEN Raise("VerificationError", <<"Missing required field:", missing>>)
        ELSE IF evidence_required /\ evidence = <<>>
        THEN Raise("VerificationError",
                   <<"Step", step.step_id, "requires evidence but none provided">>)
        ELSE Return(build_verification("SUPPORTED", 95,
                 [i \in 1..Len(evidence) |-> evidence[i].evidence_id],
                 <<"Verified">>))

verify_step_without_evidence_check(step) ==
    LET missing == first_missing_field(step, 1)
        evidence == Get(step, "evidence", <<>>)
        execution_output == Get(step, "execution_output", NoText)
    IN  IF missing # None
        THEN Raise("VerificationError", <<"Missing required field:", missing>>)
        ELSE IF execution_output = NoText
        THEN Raise("VerificationError",
                   <<"Step", step.step_id, "has no execution_output">>)
        ELSE Return(build_verification("SUPPORTED", 95,
                 [i \in 1..Len(evidence) |-> evidence[i].evidence_id],
                 <<"Verified by structural and logical checks">>))

\* rule_verifier.verify_step
verify_step(step) ==
    LET missing == first_missing_field(step, 1)
        evidence_required == Get(step, "evidence_required", FALSE)
        evidence == Get(step, "evidence", <<>>)
        checked_evidence_ids ==
            [i \in 1..Len(evidence) |-> evidence[i].evidence_id]
        execution_output == Get(step, "execution_output", NoText)
        notes == IF evidence # <<>>
                 THEN <<"Verified with", ToString(Len(evidence)), "evidence item(s)">>
                 ELSE <<"Verified by structural and logical checks">>
    IN  IF missing # None
        THEN Raise("VerificationError", <<"Missing required field:", missing>>)
        ELSE IF evidence_required /\ evidence = <<>>
        THEN Raise("VerificationError",
                   <<"Step", step.step_id, "requires evidence but none provided">>)
        ELSE IF execution_output = NoText
        THEN Raise("VerificationError",
                   <<"Step", step.step_id, "has no execution_output">>)
        ELSE Return(build_verification("SUPPORTED", 95, checked_evidence_ids, notes))

EvidenceIds == {"E1", "E2"}

EvidenceLists ==
    UNION { [1..n -> { build_evidence(e, "sentence_retriever", "sentence")
                       : e \in EvidenceIds }]
            : n \in 0..MaxEvidence }

StepKeys ==
    {"step_id", "step_index", "action", "status", "executor",
     "evidence_required", "evidence", "execution_output"}

\* the step dicts verify_step is tried on: any subset of the keys may be
\* missing, and execution_output may be present and None
StepDicts ==
    { Without([ step_id |-> "step-1",
                step_index |-> 1,
                action |-> "Retrieve evidence snippets from the document",
                status |-> "EXECUTED",
                executor |-> "retriever_stub",
                evidence_required |-> er,
                evidence |-> ev,
                execution_output |-> out ], ks)
      : er \in BOOLEAN, ev \in EvidenceLists,
        out \in {NoText, <<>>, <<"Retrieved", "evidence">>},
        ks \in SUBSET {"step_id", "action", "status", "executor",
                       "evidence_required", "evidence", "execution_output"} }

NotCalled == [called |-> FALSE]

\* one call verify_step(vstep)
VerifyStep ==
    /\ ~vout.called
    /\ vout' = Put(verify_step(vstep), "called", TRUE)
    /\ UNCHANGED <<vstep, vstep0, notVerifyVars>>

(***************************************************************************)
(* Claims about verify_step.                                               *)
(***************************************************************************)
C10_MustRaise ==
    \/ \E f \in {"step_id", "action", "status", "executor"} : f \notin DOMAIN vstep0
    \/ /\ "evidence_required" \in DOMAIN vstep0
       /\ vstep0["evidence_required"]
       /\ ("evidence" \in DOMAIN vstep0 => Len(vstep0["evidence"]) = 0)
    \/ "execution_output" \notin DOMAIN vstep0
    \/ vstep0["execution_output"] = NoText

C10_AllEvidenceIds ==
    IF "evidence" \in DOMAIN vstep0
    THEN [i \in 1..Len(vstep0["evidence"]) |-> vstep0["evidence"][i].evidence_id]
    ELSE <<>>

\* C10: verify_step raises VerificationError exactly when a required field
\* (step_id, action, status, executor) is absent, or evidence_required is
\* true and the evidence list is empty, or execution_output is unset; in
\* every other case it returns a SUPPORTED verification whose
\* checked_evidence_ids are the ids of all the step's evidence items in
\* order; and it never modifies the step.
C10_VerifyStepContract ==
    vout.called =>
        /\ vout.raised <=> C10_MustRaise
        /\ vout.raised => vout.error = "VerificationError"
        /\ ~vout.raised =>
              /\ vout.value.result = "SUPPORTED"
              /\ vout.value.checked_evidence_ids = C10_AllEvidenceIds
        /\ vstep = vstep0

C10_Witness ==
    /\ vout.called
    /\ ~vout.raised
    /\ DOMAIN vstep0 = StepKeys
    /\ vstep0.evidence_required
    /\ vout.value.checked_evidence_ids = <<"E2", "E1">>

(***************************************************************************)
(* policy/policy_engine.py: enforce_finalization_policy                    *)
(***************************************************************************)
MaxEnforceSteps == 3

Domain == "research_verification"

BlockMessage == "Output blocked by policy demo."

NoBlock == [should_block |-> FALSE, block_reason |-> <<>>]

Block(reason) == [should_block |-> TRUE, block_reason |-> reason]

\* the display id f"S{step.get('step_index', 0) + 1}"
step_display_id(step) == <<"S", ToString(Get(step, "step_index", 0) + 1)>>

\* the loop over steps under fail_closed_if_unverified, from position i
RECURSIVE scan_steps(_, _)
scan_steps(steps, i) ==
    IF i > Len(steps) THEN NoBlock
    ELSE
    LET step == steps[i]
        evidence_required == Get(step, "evidence_required", FALSE)
    IN  IF "verification" \notin DOMAIN step
        THEN IF evidence_required
             THEN Block(<<"Step", ToString(Get(step, "step_index", "?")),
                          "missing verification.">>)
             ELSE scan_steps(steps, i + 1)
        ELSE
        LET status == Get(step["verification"], "result", "UNKNOWN")
        IN  IF status = "UNKNOWN"
            THEN Block(<<"Step">> \o step_display_id(step)
                       \o <<Get(step, "action", "Unknown Action"),
                            "is UNKNOWN (Policy Violation).">>)
            ELSE IF status = "WEAK" /\ evidence_required
            THEN Block(<<"Step">> \o step_display_id(step)
                       \o <<Get(step, "action", "Unknown Action"), "is WEAK.">>)
            ELSE scan_steps(steps, i + 1)

finalization_decision_global_first(policy, domain, final_conclusion, steps) ==
    LET domain_defaults == Get(Get(policy, "domain_defaults", EmptyDict), domain, EmptyDict)
        global_rules == Get(policy, "global_rules", EmptyDict)
        fail_closed == Get(domain_defaults, "fail_closed_if_unverified", FALSE)
        min_confidence == Get(domain_defaults, "min_confidence_to_finalize", 0)
        global_block_threshold == Get(global_rules, "block_if_confidence_below", 0)
        current_confidence == Get(final_conclusion, "confidence", 0)
        scanned == IF fail_closed THEN scan_steps(steps, 1) ELSE NoBlock
    IN  IF scanned.should_block THEN scanned
        ELSE IF current_confidence < global_block_threshold
        THEN Block(<<"Confidence", ToString(current_confidence),
                     "is below global threshold", ToString(global_block_threshold)>>)
        ELSE IF current_confidence < min_confidence
        THEN Block(<<"Confidence", ToString(current_confidence),
                     "is below domain minimum", ToString(min_confidence)>>)
        ELSE NoBlock

\* enforce_finalization_policy, up to "if should_block": the locals
\* should_block and block_reason
finalization_decision(policy, domain, final_conclusion, steps) ==
    LET domain_defaults == Get(Get(policy, "domain_defaults", EmptyDict), domain, EmptyDict)
        global_rules == Get(policy, "global_rules", EmptyDict)
        fail_closed == Get(domain_defaults, "fail_closed_if_unverified", FALSE)
        min_confidence == Get(domain_defaults, "min_confidence_to_finalize", 0)
        global_block_threshold == Get(global_rules, "block_if_confidence_below", 0)
        current_confidence == Get(final_conclusion, "confidence", 0)
        scanned == IF fail_closed THEN scan_steps(steps, 1) ELSE NoBlock
    IN  IF scanned.should_block THEN scanned
        ELSE IF current_confidence < min_confidence
        THEN Block(<<"Confidence", ToString(current_confidence),
                     "is below domain minimum", ToString(min_confidence)>>)
        ELSE IF current_confidence < global_block_threshold
        THEN Block(<<"Confidence", ToString(current_confidence),
                     "is below global threshold", ToString(global_block_threshold)>>)
        ELSE NoBlock

apply_block_keeping_confidence(policy, final_conclusion, decision) ==
    LET block_message == Get(Get(policy, "global_rules", EmptyDict),
                             "block_message", "Output blocked by policy.")
    IN  IF decision.should_block
        THEN Put(final_conclusion, "content",
                 <<block_message, "Reason:">> \o decision.block_reason)
        ELSE final_conclusion

\* enforce_finalization_policy, from "if should_block" to the return
apply_block(policy, final_conclusion, decision) ==
    LET block_message == Get(Get(policy, "global_rules", EmptyDict),
                             "block_message", "Output blocked by policy.")
    IN  IF decision.should_block
        THEN Put(Put(final_conclusion, "content",
                     <<block_message, "Reason:">> \o decision.block_reason),
                 "confidence", 0)
        ELSE final_conclusion

enforce_without_block(policy, domain, final_conclusion, steps) == final_conclusion

\* policy_engine.enforce_finalization_policy
enforce_finalization_policy(policy, domain, final_conclusion, steps) ==
    apply_block(policy, final_conclusion,
                finalization_decision(policy, domain, final_conclusion, steps))

\* rsl.build_final_conclusion (finalized_at, a wall-clock reading, is left out)
build_final_conclusion(content, confidence, supported_step_ids, unresolved_contradictions) ==
    [ content |-> content,
      confidence |-> confidence,
      supported_step_ids |-> supported_step_ids,
      unresolved_contradictions |-> unresolved_contradictions ]

Thresholds == {0, 50}

ConclusionConfidences == {0, 30, 50, 65, 90}

DomainRules ==
    {EmptyDict}
    \cup { [ fail_closed_if_unverified |-> fc, min_confidence_to_finalize |-> m ]
           : fc \in BOOLEAN, m \in Thresholds }

\* policies as load_policy accepts them: global_rules is complete, the
\* domain's defaults may be absent or partial
EnforcePolicies ==
    { [ policy_version |-> "1.0",
        domain_defaults |-> dd,
        global_rules |-> [ block_if_confidence_below |-> g,
                           block_message |-> BlockMessage,
                           allowed_domains |-> <<Domain>> ] ]
      : dd \in {EmptyDict} \cup { [research_verification |-> r] : r \in DomainRules },
        g \in Thresholds }

VerificationResults == {"SUPPORTED", "PARTIALLY_SUPPORTED", "WEAK", "UNKNOWN"}

\* a step as the kernel hands it over: VERIFIED, with or without a
\* verification object
EnforceStep(index, er, v) ==
    LET step == [ step_id |-> <<"step", index>>,
                  step_index |-> index,
                  action |-> "Verify whether the evidence supports the claim",
                  status |-> "VERIFIED",
                  executor |-> "o3_stub",
                  evidence_required |-> er,
                  evidence |-> <<>> ]
    IN  IF v = None THEN step
        ELSE Put(step, "verification", build_verification(v, 45, <<>>, <<>>))

EnforceStepLists ==
    UNION { { [i \in 1..n |-> EnforceStep(i - 1, f[i][1], f[i][2])]
              : f \in [1..n -> BOOLEAN \X (VerificationResults \cup {None})] }
            : n \in 0..MaxEnforceSteps }

\* one call enforce_finalization_policy(efPolicy, Domain, efConclusion, efSteps)
EnforceFinalization ==
    /\ ~efLocal.called
    /\ efLocal' = Put(finalization_decision(efPolicy, Domain, efConclusion, efSteps),
                      "called", TRUE)
    /\ efConclusion' = enforce_finalization_policy(efPolicy, Domain, efConclusion, efSteps)
    /\ UNCHANGED <<efPolicy, efSteps, efInput, notEnforceVars>>

(***************************************************************************)
(* Claims about enforce_finalization_policy.                               *)
(***************************************************************************)
C4_Rules ==
    IF Domain \in DOMAIN efPolicy.domain_defaults
    THEN efPolicy.domain_defaults[Domain] ELSE EmptyDict

C4_FailClosed ==
    /\ "fail_closed_if_unverified" \in DOMAIN C4_Rules
    /\ C4_Rules.fail_closed_if_unverified

C4_DomainMinimum ==
    IF "min_confidence_to_finalize" \in DOMAIN C4_Rules
    THEN C4_Rules.min_confidence_to_finalize ELSE 0

C4_GlobalThreshold == efPolicy.global_rules.block_if_confidence_below

C4_Confidence == efInput.final_conclusion.confidence

C4_Unverified(step) == "verification" \notin DOMAIN step

C4_Offending(step) ==
    \/ C4_Unverified(step) /\ step.evidence_required
    \/ ~C4_Unverified(step) /\ step.verification.result = "UNKNOWN"
    \/ /\ ~C4_Unverified(step)
       /\ step.verification.result = "WEAK"
       /\ step.evidence_required

C4_ScanBlocks ==
    /\ C4_FailClosed
    /\ \E i \in 1..Len(efInput.steps) : C4_Offending(efInput.steps[i])

C4_FirstOffender ==
    efInput.steps[CHOOSE i \in 1..Len(efInput.steps) :
                    /\ C4_Offending(efInput.steps[i])
                    /\ \A j \in 1..(i - 1) : ~C4_Offending(efInput.steps[j])]

C4_StepReason(step) ==
    IF C4_Unverified(step)
    THEN <<"Step", ToString(step.step_index), "missing verification.">>
    ELSE IF step.verification.result = "UNKNOWN"
    THEN <<"Step", "S", ToString(step.step_index + 1), step.action,
           "is UNKNOWN (Policy Violation).">>
    ELSE <<"Step", "S", ToString(step.step_index + 1), step.action, "is WEAK.">>

C4_ExpectedReason ==
    IF C4_ScanBlocks THEN C4_StepReason(C4_FirstOffender)
    ELSE IF C4_Confidence < C4_DomainMinimum
    THEN <<"Confidence", ToString(C4_Confidence),
           "is below domain minimum", ToString(C4_DomainMinimum)>>
    ELSE <<"Confidence", ToString(C4_Confidence),
           "is below global threshold", ToString(C4_GlobalThreshold)>>

C4_Blocked == efConclusion.content # efInput.final_conclusion.content

\* C4: enforce_finalization_policy blocks the conclusion exactly when
\* (fail_closed_if_unverified is set and some step is evidence-required with
\* no verification, or has result UNKNOWN, or is evidence-required with
\* result WEAK) or the confidence is below min_confidence_to_finalize or
\* below block_if_confidence_below; the reported reason is that of the
\* earliest check in the order step scan, domain minimum, global threshold,
\* and within the scan that of the first offending step.
C4_BlocksExactlyWhenRulesSay ==
    efLocal.called =>
        /\ C4_Blocked <=>
              \/ C4_ScanBlocks
              \/ C4_Confidence < C4_DomainMinimum
              \/ C4_Confidence < C4_GlobalThreshold
        /\ C4_Blocked =>
              SubSeq(efConclusion.content, 3, Len(efConclusion.content))
                 = C4_ExpectedReason

C4_Witness ==
    /\ efLocal.called
    /\ C4_Blocked
    /\ C4_FailClosed
    /\ Len(efInput.steps) = 3
    /\ ~C4_Offending(efInput.steps[1])
    /\ C4_Unverified(efInput.steps[2]) /\ C4_Offending(efInput.steps[2])
    /\ ~C4_Unverified(efInput.steps[3]) /\ C4_Offending(efInput.steps[3])
    /\ C4_Confidence < C4_DomainMinimum
    /\ C4_Confidence < C4_GlobalThreshold

\* C5: whenever enforce_finalization_policy blocks, the returned content is
\* the policy's global block_message followed by the specific reason and
\* the confidence is exactly 0.0 (a conclusion arriving with confidence 0.3
\* under block_if_confidence_below = 0.5 is blocked); whenever it does not
\* block, content and confidence are returned unchanged; it never changes a
\* step or any other field of the conclusion.
C5_BlockOverwritesOnlyContentAndConfidence ==
    efLocal.called =>
        /\ efLocal.should_block =>
              /\ efLocal.block_reason # <<>>
              /\ efConclusion.content =
                    <<efPolicy.global_rules.block_message, "Reason:">>
                       \o efLocal.block_reason
              /\ efConclusion.confidence = 0
        /\ ~efLocal.should_block =>
              /\ efConclusion.content = efInput.final_conclusion.content
              /\ efConclusion.confidence = efInput.final_conclusion.confidence
        /\ (/\ efInput.final_conclusion.confidence = 30
            /\ efPolicy.global_rules.block_if_confidence_below = 50)
              => efLocal.should_block
        /\ DOMAIN efConclusion = DOMAIN efInput.final_conclusion
        /\ \A k \in DOMAIN efConclusion \ {"content", "confidence"} :
              efConclusion[k] = efInput.final_conclusion[k]
        /\ efSteps = efInput.steps

C5_Witness ==
    /\ efLocal.called
    /\ efLocal.should_block
    /\ efInput.final_conclusion.confidence = 30
    /\ efPolicy.global_rules.block_if_confidence_below = 50
    /\ efPolicy.domain_defaults = EmptyDict
    /\ Len(efSteps) = 3
    /\ efConclusion.confidence = 0
    /\ efConclusion.content[1] = BlockMessage

(***************************************************************************)
(* Texts.  A text is the sequence of its words; a sentence ends with the   *)
(* word ".".  A number word stands for its value in tenths.                *)
(***************************************************************************)
NumberValue ==
    [ w \in {"15", "14.8", "20", "60", "53.5", "16.1", "15.6"} |->
        CASE w = "15" -> 150 [] w = "14.8" -> 148 [] w = "20" -> 200
          [] w = "60" -> 600 [] w = "53.5" -> 535
          [] w = "16.1" -> 161 [] w = "15.6" -> 156 ]

\* str.lower() of one word
Lower(w) ==
    CASE w = "Model" -> "model" [] w = "X" -> "x" [] w = "Dataset" -> "dataset"
      [] w = "Y" -> "y" [] w = "The" -> "the" [] w = "Results" -> "results"
      [] w = "Accuracy" -> "accuracy" [] OTHER -> w

LowerText(text) == [i \in 1..Len(text) |-> Lower(text[i])]

\* "phrase in text" for a phrase of whole words
ContainsPhrase(text, phrase) ==
    \E i \in 1..(Len(text) - Len(phrase) + 1) :
        SubSeq(text, i, i + Len(phrase) - 1) = phrase

\* str(float) of a value in tenths: 148 is "14.8", 150 is "15.0"
FormatFloat(v) == ToString(v \div 10) \o "." \o ToString(v % 10)

\* f"{c:.2f}" of a value in hundredths
Format2f(c) ==
    ToString(c \div 100) \o "." \o ToString((c % 100) \div 10) \o ToString(c % 10)

\* utils/text.extract_percent_value and contradiction_detector.extract_percent:
\* the first number followed by "percent" or "%"; <<>> stands for None
extract_percent(text) ==
    LET hits == { i \in 1..(Len(text) - 1) :
                    /\ text[i] \in DOMAIN NumberValue
                    /\ Lower(text[i + 1]) \in {"percent", "%"} }
    IN  IF hits = {} THEN <<>>
        ELSE <<NumberValue[text[CHOOSE i \in hits : \A j \in hits : i <= j]]>>

\* the number word itself, as match.group(1) gives it
percent_word(text) ==
    LET hits == { i \in 1..(Len(text) - 1) :
                    /\ text[i] \in DOMAIN NumberValue
                    /\ Lower(text[i + 1]) \in {"percent", "%"} }
    IN  IF hits = {} THEN <<>>
        ELSE <<text[CHOOSE i \in hits : \A j \in hits : i <= j]>>

\* utils/text.tokenize, as a set: lower-cased words, punctuation dropped
\* (which splits "14.8" into "14" and "8")
tokenize(text) ==
    UNION { CASE text[i] = "." -> {}
              [] text[i] = "14.8" -> {"14", "8"}
              [] text[i] = "53.5" -> {"53", "5"}
              [] text[i] = "16.1" -> {"16", "1"}
              [] text[i] = "15.6" -> {"15", "6"}
              [] OTHER -> {Lower(text[i])}
            : i \in 1..Len(text) }

RECURSIVE JoinTexts(_)
JoinTexts(texts) ==
    IF texts = <<>> THEN <<>> ELSE Head(texts) \o JoinTexts(Tail(texts))

(***************************************************************************)
(* evidence/sentence_retriever.py and the executor stubs                   *)
(***************************************************************************)
\* the sort key (-overlap_count, sentence_index): the best of the positions
\* in `left`
BestSentence(query_tokens, sentences, left) ==
    CHOOSE i \in left : \A j \in left :
        LET oi == Cardinality(query_tokens \cap tokenize(sentences[i]))
            oj == Cardinality(query_tokens \cap tokenize(sentences[j]))
        IN  oi > oj \/ (oi = oj /\ i <= j)

RECURSIVE TopSentences(_, _, _, _)
TopSentences(query_tokens, sentences, left, k) ==
    IF k = 0 \/ left = {} THEN <<>>
    ELSE LET i == BestSentence(query_tokens, sentences, left)
             overlap == Cardinality(query_tokens \cap tokenize(sentences[i]))
             n == Max(1, Cardinality(query_tokens))
         IN  << [ content |-> sentences[i],
                  relevance_score |-> (2 * 1000 * overlap + n) \div (2 * n),
                  sentence_index |-> i - 1 ] >>
             \o TopSentences(query_tokens, sentences, left \ {i}, k - 1)

\* sentence_retriever.retrieve_evidence; document_text is the list of the
\* document's sentences, relevance_score is in thousandths
retrieve_evidence(paragraph, document_text, k) ==
    IF paragraph = <<>> \/ document_text = <<>> THEN <<>>
    ELSE IF tokenize(paragraph) = {} THEN <<>>
    ELSE TopSentences(tokenize(paragraph), document_text,
                      1..Len(document_text), k)

\* retriever_stub.execute
retriever_stub_execute(step, context) ==
    LET paragraph == Get(Get(context, "inputs", EmptyDict), "paragraph", <<>>)
        document_text == Get(context, "document_text", <<>>)
    IN  IF paragraph = <<>> \/ document_text = <<>>
        THEN [ retrieved_evidence |-> <<>>,
               summary |-> <<"Retriever failed: missing paragraph or document text">> ]
        ELSE LET evidence_results == retrieve_evidence(paragraph, document_text, 3)
             IN  [ retrieved_evidence |-> evidence_results,
                   summary |-> <<"Retrieved", ToString(Len(evidence_results)),
                                 "evidence sentences">> ]

\* gpt_stub.execute answering every step with the generic response
gpt_stub_execute_generic(step, context) ==
    <<"GPT stub generated this generic response.">>

\* gpt_stub.execute
gpt_stub_execute(step, context) ==
    LET paragraph == Get(Get(context, "inputs", EmptyDict), "paragraph", <<>>)
    IN  IF "step_index" \in DOMAIN step /\ step.step_index = 0 /\ paragraph # <<>>
        THEN paragraph
        ELSE <<"GPT stub generated this generic response.">>

\* o3_stub.execute
o3_stub_execute(step, context) ==
    <<"O3 analysis: Step executed with advanced reasoning simulation.">>

(***************************************************************************)
(* verifiers/rule_verifier.py: verify_claim_support                        *)
(***************************************************************************)
SCOPE_LIMITERS ==
    << <<"in", "the", "indoor", "setting">>,
       <<"under", "condition">>,
       <<"controlled", "conditions">>,
       <<"specific", "setting">>,
       <<"limited", "to">> >>

\* the first sentence that carries a percent value
RECURSIVE first_evidence_percent(_)
first_evidence_percent(evidence_sentences) ==
    IF evidence_sentences = <<>> THEN <<>>
    ELSE IF extract_percent(Head(evidence_sentences)) # <<>>
    THEN extract_percent(Head(evidence_sentences))
    ELSE first_evidence_percent(Tail(evidence_sentences))

\* the first limiter of SCOPE_LIMITERS found in the evidence
RECURSIVE first_scope_limiter(_, _)
first_scope_limiter(combined_evidence, i) ==
    IF i > Len(SCOPE_LIMITERS) THEN <<>>
    ELSE IF ContainsPhrase(combined_evidence, SCOPE_LIMITERS[i])
    THEN SCOPE_LIMITERS[i]
    ELSE first_scope_limiter(combined_evidence, i + 1)

Verdict(status, confidence, issues) ==
    [status |-> status, confidence |-> confidence, issues |-> issues]

ScopeIssue(limiter) == <<"Scope limitation detected: '">> \o limiter \o <<"'">>

AbsDiff(a, b) == IF a >= b THEN a - b ELSE b - a

\* abs(a - b) on Python floats is not always the difference of the decimals:
\* the sign of (float result - decimal result) for the values of NumberValue
FloatError(a, b) ==
    IF {a, b} \in { {150, 161}, {148, 600}, {148, 535}, {148, 161}, {200, 156},
                    {161, 156} }
    THEN 1
    ELSE IF {a, b} \in { {150, 148}, {150, 156}, {148, 200}, {148, 156}, {200, 161},
                         {600, 161}, {600, 156}, {535, 161}, {535, 156} }
    THEN -1
    ELSE 0

\* "abs(a - b) <= t" on floats, for a bound t that a float holds exactly
FloatDiffAtMost(a, b, t) ==
    \/ AbsDiff(a, b) < t
    \/ AbsDiff(a, b) = t /\ FloatError(a, b) <= 0

\* a verifier that finds every claim supported
verify_claim_support_always_supported(claim, evidence_sentences) ==
    [status |-> "SUPPORTED", confidence |-> 90, issues |-> <<>>]

\* a verifier that finds every claim with evidence contradicted
verify_claim_support_contradicting(claim, evidence_sentences) ==
    IF evidence_sentences = <<>>
    THEN [ status |-> "WEAK", confidence |-> 30,
           issues |-> << <<"No evidence sentences provided">> >> ]
    ELSE [ status |-> "CONTRADICTED", confidence |-> 40,
           issues |-> << <<"Claim contradicted by evidence">> >> ]

\* rule_verifier.verify_claim_support
verify_claim_support(claim, evidence_sentences) ==
    LET claim_percent == extract_percent(claim)
        claim_lower == LowerText(claim)
        has_model_x == ContainsPhrase(claim_lower, <<"model", "x">>)
        has_dataset_y == ContainsPhrase(claim_lower, <<"dataset", "y">>)
        combined_evidence == LowerText(JoinTexts(evidence_sentences))
        evidence_has_model_x == ContainsPhrase(combined_evidence, <<"model", "x">>)
        evidence_has_dataset_y == ContainsPhrase(combined_evidence, <<"dataset", "y">>)
        evidence_percent == first_evidence_percent(evidence_sentences)
        scope_limiter_found == first_scope_limiter(combined_evidence, 1)
        scope_limited == scope_limiter_found # <<>>
    IN  IF evidence_sentences = <<>>
        THEN Verdict("WEAK", 30, << <<"No evidence sentences provided">> >>)
        ELSE IF ~evidence_has_model_x /\ has_model_x
        THEN Verdict("WEAK", 35, << <<"Evidence does not mention Model X">> >>)
        ELSE IF ~evidence_has_dataset_y /\ has_dataset_y
        THEN Verdict("WEAK", 35, << <<"Evidence does not mention Dataset Y">> >>)
        ELSE IF claim_percent # <<>> /\ evidence_percent = <<>>
        THEN Verdict("WEAK", 40,
                     << <<"Evidence does not contain a numeric improvement value">> >>)
        ELSE IF claim_percent # <<>> /\ evidence_percent # <<>>
        THEN LET diff == AbsDiff(claim_percent[1], evidence_percent[1])
             IN  IF diff = 0
                 THEN IF scope_limited
                      THEN Verdict("PARTIALLY_SUPPORTED", 75,
                                   <<ScopeIssue(scope_limiter_found)>>)
                      ELSE Verdict("SUPPORTED", 90, <<>>)
                 ELSE IF FloatDiffAtMost(claim_percent[1], evidence_percent[1], 5)
                 THEN LET rounding ==
                            <<"Rounding discrepancy: claim states ",
                              FormatFloat(claim_percent[1]), "%, evidence shows ",
                              FormatFloat(evidence_percent[1]), "%">>
                      IN  IF scope_limited
                          THEN Verdict("PARTIALLY_SUPPORTED", 65,
                                       <<rounding, ScopeIssue(scope_limiter_found)>>)
                          ELSE Verdict("PARTIALLY_SUPPORTED", 75, <<rounding>>)
                 ELSE Verdict("WEAK", 45,
                              << <<"Numeric mismatch: claim states ",
                                   FormatFloat(claim_percent[1]), "%, evidence shows ",
                                   FormatFloat(evidence_percent[1]), "%">> >>)
        ELSE IF scope_limited
        THEN Verdict("PARTIALLY_SUPPORTED", 70, <<ScopeIssue(scope_limiter_found)>>)
        ELSE Verdict("SUPPORTED", 85, <<>>)

(***************************************************************************)
(* revision/revision_engine.py                                             *)
(***************************************************************************)
\* the match of r"(in the [a-z]+ setting)" in a text; <<>> stands for None
scope_match(text) ==
    LET hits == { i \in 1..(Len(text) - 3) :
                    /\ Lower(text[i]) = "in"
                    /\ Lower(text[i + 1]) = "the"
                    /\ text[i + 2] \notin (DOMAIN NumberValue) \cup {"."}
                    /\ Lower(text[i + 3]) = "setting" }
    IN  IF hits = {} THEN <<>>
        ELSE SubSeq(text, CHOOSE i \in hits : \A j \in hits : i <= j,
                    (CHOOSE i \in hits : \A j \in hits : i <= j) + 3)

\* revision_engine.rewrite_claim
rewrite_claim(claim, evidence_texts) ==
    IF evidence_texts = <<>> THEN claim
    ELSE
    LET primary_evidence == evidence_texts[1]
        percent_val == percent_word(primary_evidence)
        scope_val == scope_match(primary_evidence)
    IN  IF percent_val # <<>> /\ percent_word(claim) # <<>>
        THEN <<"Model", "X", "improves", "accuracy", "by", "approximately",
               percent_val[1], "percent", "on", "Dataset", "Y">>
             \o scope_val \o <<".">>
        ELSE claim

(***************************************************************************)
(* consistency/contradiction_detector.py                                   *)
(***************************************************************************)
\* "part in word" for the words of the model's texts: the parts "x" and "y"
\* are single letters, found inside longer words too
HasSubstring(word, part) ==
    \/ word = part
    \/ part = "x" /\ word \in {"approximately"}
    \/ part = "y" /\ word \in {"accuracy", "approximately", "vary"}

\* "all(part in content_lower for part in subject_parts)"
mentions_subject(content, subject) ==
    \A i \in 1..Len(subject) :
        \E j \in 1..Len(content) : HasSubstring(Lower(content[j]), Lower(subject[i]))

\* contradiction_detector.detect_numeric_contradictions, from memory item i
\* on; ids are taken from n on
RECURSIVE detect_from(_, _, _, _, _, _, _)
detect_from(memory_items, i, current_subject, current_value, unit, threshold, n) ==
    IF i > Len(memory_items) THEN <<>>
    ELSE
    LET item == memory_items[i]
        content == Get(item, "content", <<>>)
        memory_value == extract_percent(content)
        hit == /\ Get(item, "type", None) = "FACT"
               /\ mentions_subject(content, current_subject)
               /\ memory_value # <<>>
               /\ ~FloatDiffAtMost(memory_value[1], current_value, threshold)
    IN  IF ~hit
        THEN detect_from(memory_items, i + 1, current_subject, current_value,
                         unit, threshold, n)
        ELSE << [ contradiction_id |-> NewId("ctr", n + 1),
                  step_ids |-> <<"S3">>,
                  description |->
                     <<"Numeric conflict detected: current claim states ",
                       FormatFloat(current_value), unit,
                       ", but prior memory recorded ",
                       FormatFloat(memory_value[1]), unit,
                       " for the same subject. Difference of ",
                       FormatFloat(AbsDiff(memory_value[1], current_value)), unit,
                       " exceeds threshold of ", FormatFloat(threshold), unit, ".">>,
                  severity |-> "HIGH",
                  detected_by |-> [type |-> "RULE", name |-> "numeric_conflict_detector"],
                  prior_memory_id |-> Get(item, "memory_id", None),
                  prior_value |-> memory_value[1],
                  current_value |-> current_value ] >>
             \o detect_from(memory_items, i + 1, current_subject, current_value,
                            unit, threshold, n + 1)

\* contradiction_detector.detect_numeric_contradictions
detect_numeric_contradictions(memory_items, current_subject, current_value, unit, threshold, n) ==
    detect_from(memory_items, 1, current_subject, current_value, unit, threshold, n)

(***************************************************************************)
(* routing/router.py                                                       *)
(***************************************************************************)
\* a bare Python string s in a place that may also hold a dict
Str(s) == [str |-> s]

IsStr(v) == DOMAIN v = {"str"}

route_executor_domain_over_step(policy, domain, step) ==
    LET current_executor == Get(step, "executor", EmptyDict)
        routing == Get(policy, "routing", EmptyDict)
        step_overrides == Get(routing, "step_overrides", EmptyDict)
        domain_overrides == Get(routing, "domain_overrides", EmptyDict)
        default_executor == Get(routing, "default_model_executor", "gpt_stub")
        logical_id == "S" \o ToString(Get(step, "step_index", 0) + 1)
        executor_name ==
            IF domain \in DOMAIN domain_overrides THEN domain_overrides[domain]
            ELSE IF logical_id \in DOMAIN step_overrides THEN step_overrides[logical_id]
            ELSE default_executor
    IN  IF IsStr(current_executor) /\ current_executor.str \in {"tool", "TOOL", "Tool"}
        THEN [type |-> "TOOL", name |-> "tool_executor", config |-> EmptyDict]
        ELSE IF ~IsStr(current_executor) /\ Get(current_executor, "type", None) = "TOOL"
        THEN current_executor
        ELSE [type |-> "MODEL", name |-> executor_name, config |-> EmptyDict]

\* router.route_executor
route_executor(policy, domain, step) ==
    LET current_executor == Get(step, "executor", EmptyDict)
        routing == Get(policy, "routing", EmptyDict)
        step_overrides == Get(routing, "step_overrides", EmptyDict)
        domain_overrides == Get(routing, "domain_overrides", EmptyDict)
        default_executor == Get(routing, "default_model_executor", "gpt_stub")
        logical_id == "S" \o ToString(Get(step, "step_index", 0) + 1)
        executor_name ==
            IF logical_id \in DOMAIN step_overrides THEN step_overrides[logical_id]
            ELSE IF domain \in DOMAIN domain_overrides THEN domain_overrides[domain]
            ELSE default_executor
    IN  IF IsStr(current_executor) /\ current_executor.str \in {"tool", "TOOL", "Tool"}
        THEN [type |-> "TOOL", name |-> "tool_executor", config |-> EmptyDict]
        ELSE IF ~IsStr(current_executor) /\ Get(current_executor, "type", None) = "TOOL"
        THEN current_executor
        ELSE [type |-> "MODEL", name |-> executor_name, config |-> EmptyDict]

\* router.resolve_and_attach_executor
resolve_and_attach_executor(policy, domain, step) ==
    Put(step, "executor", route_executor(policy, domain, step))

(***************************************************************************)
(* policy/policy_engine.py: apply_step_policy, compute_final_confidence    *)
(***************************************************************************)
\* "S<digits>" names the step with step_index int(digits) - 1
LogicalIndex == [id \in {"S1", "S2", "S3", "S02"} |-> CASE id = "S1" -> 0 [] id \in {"S2", "S02"} -> 1 [] id = "S3" -> 2]

\* a verification field that holds None
NoVerification == [is_none |-> TRUE]

apply_step_policy_to_resetting_evidence(policy, domain, step) ==
    LET domain_defaults == Get(Get(policy, "domain_defaults", EmptyDict), domain, EmptyDict)
        evidence_required_steps == Get(domain_defaults, "evidence_required_steps", <<>>)
        max_revisions == Get(domain_defaults, "max_revisions_per_step", 100)
        should_require_evidence ==
            \E i \in 1..Len(evidence_required_steps) :
                LET identifier == evidence_required_steps[i]
                IN  \/ /\ identifier \in DOMAIN LogicalIndex
                       /\ "step_index" \in DOMAIN step
                       /\ step.step_index = LogicalIndex[identifier]
                    \/ /\ "step_id" \in DOMAIN step
                       /\ identifier = step.step_id
        step1 == Put(step, "evidence_required", should_require_evidence)
        revisions == Get(step1, "revisions", <<>>)
    IN  IF /\ Len(revisions) > max_revisions
           /\ "verification" \in DOMAIN step1
           /\ step1.verification # NoVerification
        THEN Put(step1, "verification",
                 Put(Put(step1.verification, "result", "UNKNOWN"),
                     "notes",
                     LET current_notes == Get(step1.verification, "notes", <<>>)
                         exceeded == "Max revisions (" \o ToString(max_revisions)
                                        \o ") exceeded."
                     IN  IF current_notes = <<>> THEN <<exceeded>>
                         ELSE current_notes \o <<"; " \o exceeded>>))
        ELSE step1

apply_step_policy_to_at_limit(policy, domain, step) ==
    LET domain_defaults == Get(Get(policy, "domain_defaults", EmptyDict), domain, EmptyDict)
        evidence_required_steps == Get(domain_defaults, "evidence_required_steps", <<>>)
        max_revisions == Get(domain_defaults, "max_revisions_per_step", 100)
        should_require_evidence ==
            \E i \in 1..Len(evidence_required_steps) :
                LET identifier == evidence_required_steps[i]
                IN  \/ /\ identifier \in DOMAIN LogicalIndex
                       /\ "step_index" \in DOMAIN step
                       /\ step.step_index = LogicalIndex[identifier]
                    \/ /\ "step_id" \in DOMAIN step
                       /\ identifier = step.step_id
        step1 == IF should_require_evidence
                 THEN Put(step, "evidence_required", TRUE) ELSE step
        revisions == Get(step1, "revisions", <<>>)
    IN  IF /\ Len(revisions) >= max_revisions
           /\ "verification" \in DOMAIN step1
           /\ step1.verification # NoVerification
        THEN Put(step1, "verification",
                 Put(Put(step1.verification, "result", "UNKNOWN"),
                     "notes",
                     LET current_notes == Get(step1.verification, "notes", <<>>)
                         exceeded == "Max revisions (" \o ToString(max_revisions)
                                        \o ") exceeded."
                     IN  IF current_notes = <<>> THEN <<exceeded>>
                         ELSE current_notes \o <<"; " \o exceeded>>))
        ELSE step1

\* the body of apply_step_policy's loop, for one step
apply_step_policy_to(policy, domain, step) ==
    LET domain_defaults == Get(Get(policy, "domain_defaults", EmptyDict), domain, EmptyDict)
        evidence_required_steps == Get(domain_defaults, "evidence_required_steps", <<>>)
        max_revisions == Get(domain_defaults, "max_revisions_per_step", 100)
        should_require_evidence ==
            \E i \in 1..Len(evidence_required_steps) :
                LET identifier == evidence_required_steps[i]
                IN  \/ /\ identifier \in DOMAIN LogicalIndex
                       /\ "step_index" \in DOMAIN step
                       /\ step.step_index = LogicalIndex[identifier]
                    \/ /\ "step_id" \in DOMAIN step
                       /\ identifier = step.step_id
        step1 == IF should_require_evidence
                 THEN Put(step, "evidence_required", TRUE) ELSE step
        revisions == Get(step1, "revisions", <<>>)
    IN  IF /\ Len(revisions) > max_revisions
           /\ "verification" \in DOMAIN step1
           /\ step1.verification # NoVerification
        THEN Put(step1, "verification",
                 Put(Put(step1.verification, "result", "UNKNOWN"),
                     "notes",
                     LET current_notes == Get(step1.verification, "notes", <<>>)
                         exceeded == "Max revisions (" \o ToString(max_revisions)
                                        \o ") exceeded."
                     IN  IF current_notes = <<>> THEN <<exceeded>>
                         ELSE current_notes \o <<"; " \o exceeded>>))
        ELSE step1

\* policy_engine.apply_step_policy
apply_step_policy(policy, domain, steps) ==
    [i \in 1..Len(steps) |-> apply_step_policy_to(policy, domain, steps[i])]

compute_final_confidence_without_clamp(policy, domain, base_confidence, had_contradiction, had_revision) ==
    LET domain_defaults == Get(Get(policy, "domain_defaults", EmptyDict), domain, EmptyDict)
        contradiction_penalty == Get(domain_defaults, "contradiction_penalty", 0)
        revision_penalty == Get(domain_defaults, "revision_penalty", 0)
        c1 == IF had_contradiction THEN base_confidence - contradiction_penalty
              ELSE base_confidence
    IN  IF had_revision THEN c1 - revision_penalty ELSE c1

\* policy_engine.compute_final_confidence
compute_final_confidence(policy, domain, base_confidence, had_contradiction, had_revision) ==
    LET domain_defaults == Get(Get(policy, "domain_defaults", EmptyDict), domain, EmptyDict)
        contradiction_penalty == Get(domain_defaults, "contradiction_penalty", 0)
        revision_penalty == Get(domain_defaults, "revision_penalty", 0)
        c1 == IF had_contradiction THEN base_confidence - contradiction_penalty
              ELSE base_confidence
        c2 == IF had_revision THEN c1 - revision_penalty ELSE c1
    IN  Max(0, Min(100, c2))

(***************************************************************************)
(* storage/memory_store.py and policy/policy_loader.py.  A file is         *)
(* [exists |-> FALSE] or [exists |-> TRUE, content |-> c]; a JSON file's   *)
(* content is [json |-> "blank"], [json |-> "invalid"], [json |-> "object",*)
(* value |-> dict] or [json |-> "array", items |-> list].                  *)
(***************************************************************************)
NoFile == [exists |-> FALSE]

File(content) == [exists |-> TRUE, content |-> content]

load_memory_ignoring_malformed(file) ==
    IF ~file.exists THEN Return(<<>>)
    ELSE IF file.content.json \in {"blank", "invalid"} THEN Return(<<>>)
    ELSE IF file.content.json # "array"
    THEN Raise("MemoryStoreError", <<"Memory file must contain a JSON array">>)
    ELSE Return(file.content.items)

\* memory_store.load_memory
load_memory(file) ==
    IF ~file.exists THEN Return(<<>>)
    ELSE IF file.content.json = "blank" THEN Return(<<>>)
    ELSE IF file.content.json = "invalid"
    THEN Raise("MemoryStoreError", <<"Invalid JSON in memory file">>)
    ELSE IF file.content.json # "array"
    THEN Raise("MemoryStoreError", <<"Memory file must contain a JSON array">>)
    ELSE Return(file.content.items)

\* append_memory that leaves the file as it is
append_memory_keeping_file(file, writes) == Return(file)

append_memory_without_existing(file, writes) ==
    IF writes = <<>> THEN Return(file)
    ELSE LET existing == load_memory(file)
         IN  IF existing.raised THEN existing
             ELSE Return(File([json |-> "array", items |-> writes]))

\* memory_store.append_memory: the raise or, as value, the file afterwards
append_memory(file, writes) ==
    IF writes = <<>> THEN Return(file)
    ELSE LET existing == load_memory(file)
         IN  IF existing.raised THEN existing
             ELSE Return(File([json |-> "array", items |-> existing.value \o writes]))

dump_memory_after_reload(file, existing, writes) ==
    File([json |-> "array", items |-> load_memory(file).value \o writes])

\* memory_store.append_memory, lines 80-86: the file after
\* "updated = existing + writes" is written over it
dump_memory(file, existing, writes) ==
    File([json |-> "array", items |-> existing \o writes])

\* memory_store.clear_memory: the file afterwards
clear_memory(file) ==
    IF file.exists THEN File([json |-> "array", items |-> <<>>]) ELSE file

\* policy_loader.validate_policy_shape: the message of the ValueError, or
\* <<>> when the shape is valid
validate_policy_shape(policy) ==
    IF "policy_version" \notin DOMAIN policy
    THEN <<"Policy missing required key:", "policy_version">>
    ELSE IF "domain_defaults" \notin DOMAIN policy
    THEN <<"Policy missing required key:", "domain_defaults">>
    ELSE IF "global_rules" \notin DOMAIN policy
    THEN <<"Policy missing required key:", "global_rules">>
    ELSE IF "block_if_confidence_below" \notin DOMAIN policy.global_rules
    THEN <<"Policy global_rules missing required key:", "block_if_confidence_below">>
    ELSE IF "block_message" \notin DOMAIN policy.global_rules
    THEN <<"Policy global_rules missing required key:", "block_message">>
    ELSE IF "allowed_domains" \notin DOMAIN policy.global_rules
    THEN <<"Policy global_rules missing required key:", "allowed_domains">>
    ELSE <<>>

\* policy_loader.load_policy
load_policy(file) ==
    IF ~file.exists
    THEN Raise("FileNotFoundError", <<"Policy file not found">>)
    ELSE IF file.content.json # "object"
    THEN Raise("JSONDecodeError", <<"policy file is not valid JSON">>)
    ELSE IF validate_policy_shape(file.content.value) # <<>>
    THEN Raise("ValueError", validate_policy_shape(file.content.value))
    ELSE Return(file.content.value)

(***************************************************************************)
(* rsl.py builders                                                         *)
(***************************************************************************)
\* rsl.build_task (created_at is left out)
build_task(task_id, objective, domain, inputs) ==
    [task_id |-> task_id, objective |-> objective, domain |-> domain, inputs |-> inputs]

\* rsl.build_run (started_at and ended_at are left out)
build_run(run_id, status, model_policy, tool_policy) ==
    [run_id |-> run_id, status |-> status, model_policy |-> model_policy, tool_policy |-> tool_policy]

\* rsl.build_step (started_at and ended_at are left out)
build_step(step_id, step_index, action, status, depends_on, executor, evidence_required, evidence) ==
    [ step_id |-> step_id,
      step_index |-> step_index,
      action |-> action,
      status |-> status,
      depends_on |-> depends_on,
      executor |-> executor,
      evidence_required |-> evidence_required,
      evidence |-> evidence ]

\* rsl.build_audit
build_audit(kernel_version, rsl_version, logs) ==
    [kernel_version |-> kernel_version, rsl_version |-> rsl_version, logs |-> logs]

(***************************************************************************)
(* kernel.py: run_paper_verification_task.  One call runs from              *)
(* "read_document" to "returned" or "failed"; `frame` holds the call's     *)
(* locals, `fs` the three files it is given, `outcome` what the caller     *)
(* gets.                                                                   *)
(***************************************************************************)
KERNEL_VERSION == "0.1.0"

RSL_VERSION == "0.1"

\* d.update(r)
Update(d, r) == r @@ d

\* "if path:" for a path that is None or a string
Truthy(path) == path \notin {None, ""}

Claim(number) ==
    <<"Model", "X", "improves", "accuracy", "by", number, "percent", "on",
      "Dataset", "Y", ".">>

ClaimWithoutNumber == <<"Model", "X", "improves", "accuracy", "on", "Dataset", "Y", ".">>

IndoorSentence ==
    <<"Model", "X", "improves", "accuracy", "by", "14.8", "percent", "on",
      "Dataset", "Y", "in", "the", "indoor", "setting", ".">>

Paragraphs == {Claim("15"), Claim("20"), ClaimWithoutNumber, <<>>}

Documents ==
    { << IndoorSentence, <<"Results", "vary", ".">> >>,
      << Claim("15") >>,
      << <<"Results", "vary", ".">> >>,
      <<>> }

DocumentFiles == {NoFile} \cup {File(d) : d \in Documents}

PriorFact ==
    [ memory_id |-> "mem_0",
      type |-> "FACT",
      content |-> IndoorSentence,
      confidence |-> 65,
      derived_from_step_ids |-> <<"step_0">> ]

LaterFact ==
    [ memory_id |-> "mem_00",
      type |-> "FACT",
      content |-> Claim("15.6"),
      confidence |-> 95,
      derived_from_step_ids |-> <<"step_00">> ]

MemoryFiles ==
    { NoFile,
      File([json |-> "blank"]),
      File([json |-> "invalid"]),
      File([json |-> "object", value |-> EmptyDict]),
      File([json |-> "array", items |-> <<>>]),
      File([json |-> "array", items |-> <<PriorFact>>]),
      File([json |-> "array", items |-> <<PriorFact, LaterFact>>]) }

MemoryPaths == {None, "memory.json"}

PolicyDomainRules ==
    { [ evidence_required_steps |-> ers,
        max_revisions_per_step |-> 1,
        contradiction_penalty |-> 20,
        revision_penalty |-> 10,
        min_confidence_to_finalize |-> m,
        fail_closed_if_unverified |-> fc ]
      : ers \in { <<"S2", "S3">>, <<"S1">> }, m \in {0, 70}, fc \in BOOLEAN }

PolicyRoutings ==
    { [ step_overrides |-> [S2 |-> "retriever_stub", S3 |-> "o3_stub"],
        domain_overrides |-> EmptyDict,
        default_model_executor |-> "gpt_stub" ],
      [ step_overrides |-> EmptyDict,
        domain_overrides |-> [research_verification |-> "o3_stub"],
        default_model_executor |-> "gpt_stub" ] }

ValidPolicies ==
    { [ policy_version |-> "1.0",
        domain_defaults |-> dd,
        global_rules |-> [ block_if_confidence_below |-> t,
                           block_message |-> BlockMessage,
                           allowed_domains |-> <<Domain>> ],
        routing |-> r ]
      : dd \in {[research_verification |-> rules] : rules \in PolicyDomainRules},
        t \in Thresholds,
        r \in PolicyRoutings }
    \cup
    { [ policy_version |-> "1.0",
        domain_defaults |-> EmptyDict,
        global_rules |-> [ block_if_confidence_below |-> 50,
                           block_message |-> BlockMessage,
                           allowed_domains |-> <<Domain>> ] ] }

PolicyFiles ==
    { NoFile,
      File([json |-> "invalid"]),
      File([json |-> "object", value |-> [policy_version |-> "1.0", domain_defaults |-> EmptyDict]]) }
    \cup { File([json |-> "object", value |-> p]) : p \in ValidPolicies }

After_persist_before_conclusion(label) ==
    CASE label = "read_document" -> "load_memory"
      [] label = "load_memory" -> "load_policy"
      [] label = "load_policy" -> "create_task_and_run"
      [] label = "create_task_and_run" -> "s1_create"
      [] label = "s1_create" -> "s1_execute"
      [] label = "s1_execute" -> "s1_verify"
      [] label = "s1_verify" -> "s2_create"
      [] label = "s2_create" -> "s2_execute"
      [] label = "s2_execute" -> "s2_verify"
      [] label = "s2_verify" -> "s3_create"
      [] label = "s3_create" -> "s3_execute"
      [] label = "s3_execute" -> "s3_verify"
      [] label = "s3_verify" -> "revision"
      [] label = "revision" -> "contradiction_detection"
      [] label = "contradiction_detection" -> "memory_writes"
      [] label = "memory_writes" -> "persist"
      [] label = "finalize_run" -> "final_conclusion"
      [] label = "final_conclusion" -> "enforce_policy"
      [] label = "enforce_policy" -> "assemble"
      [] label = "assemble" -> "return"
      [] label = "persist" -> "finalize_run"
      [] label = "return" -> "returned"

After_s2_created_before_s1_verified(label) ==
    CASE label = "read_document" -> "load_memory"
      [] label = "load_memory" -> "load_policy"
      [] label = "load_policy" -> "create_task_and_run"
      [] label = "create_task_and_run" -> "s1_create"
      [] label = "s1_create" -> "s1_execute"
      [] label = "s1_execute" -> "s2_create"
      [] label = "s1_verify" -> "s2_execute"
      [] label = "s2_create" -> "s1_verify"
      [] label = "s2_execute" -> "s2_verify"
      [] label = "s2_verify" -> "s3_create"
      [] label = "s3_create" -> "s3_execute"
      [] label = "s3_execute" -> "s3_verify"
      [] label = "s3_verify" -> "revision"
      [] label = "revision" -> "contradiction_detection"
      [] label = "contradiction_detection" -> "memory_writes"
      [] label = "memory_writes" -> "finalize_run"
      [] label = "finalize_run" -> "final_conclusion"
      [] label = "final_conclusion" -> "enforce_policy"
      [] label = "enforce_policy" -> "assemble"
      [] label = "assemble" -> "persist"
      [] label = "persist" -> "return"
      [] label = "return" -> "returned"

\* the statement that follows each block of run_paper_verification_task
After(label) ==
    CASE label = "read_document" -> "load_memory"
      [] label = "load_memory" -> "load_policy"
      [] label = "load_policy" -> "create_task_and_run"
      [] label = "create_task_and_run" -> "s1_create"
      [] label = "s1_create" -> "s1_execute"
      [] label = "s1_execute" -> "s1_verify"
      [] label = "s1_verify" -> "s2_create"
      [] label = "s2_create" -> "s2_execute"
      [] label = "s2_execute" -> "s2_verify"
      [] label = "s2_verify" -> "s3_create"
      [] label = "s3_create" -> "s3_execute"
      [] label = "s3_execute" -> "s3_verify"
      [] label = "s3_verify" -> "revision"
      [] label = "revision" -> "contradiction_detection"
      [] label = "contradiction_detection" -> "memory_writes"
      [] label = "memory_writes" -> "finalize_run"
      [] label = "finalize_run" -> "final_conclusion"
      [] label = "final_conclusion" -> "enforce_policy"
      [] label = "enforce_policy" -> "assemble"
      [] label = "assemble" -> "persist"
      [] label = "persist" -> "return"
      [] label = "return" -> "returned"

\* an exception leaves the call: the caller gets the error; `frame` keeps the
\* locals as they were when the call ended
Fail(error) ==
    /\ pc' = "failed"
    /\ frame' = frame
    /\ outcome' = error

\* lines 258-263
ReadDocument ==
    /\ pc = "read_document"
    /\ IF ~fs.document.exists
       THEN Fail(Raise("FileNotFoundError", <<"Document not found">>))
       ELSE /\ frame' = Put(frame, "document_text", fs.document.content)
            /\ pc' = After(pc)
            /\ UNCHANGED outcome
    /\ UNCHANGED <<args, fs, fsAtStart, idCounter, notKernelVars>>

\* lines 265-268
LoadMemory ==
    /\ pc = "load_memory"
    /\ LET loaded == IF Truthy(args.memory_path)
                     THEN load_memory(fs.memory) ELSE Return(<<>>)
       IN  IF loaded.raised
           THEN Fail(loaded)
           ELSE /\ frame' = Put(frame, "prior_memory", loaded.value)
                /\ pc' = After(pc)
                /\ UNCHANGED outcome
    /\ UNCHANGED <<args, fs, fsAtStart, idCounter, notKernelVars>>

\* line 271
LoadPolicy ==
    /\ pc = "load_policy"
    /\ LET loaded == load_policy(fs.policy)
       IN  IF loaded.raised
           THEN Fail(loaded)
           ELSE /\ frame' = Put(frame, "policy", loaded.value)
                /\ pc' = After(pc)
                /\ UNCHANGED outcome
    /\ UNCHANGED <<args, fs, fsAtStart, idCounter, notKernelVars>>

\* lines 273-295
CreateTaskAndRun ==
    /\ pc = "create_task_and_run"
    /\ LET task_id == NewId("task", idCounter + 1)
           run_id == NewId("run", idCounter + 2)
           task == build_task(task_id,
                              "Verify the claim against the provided document",
                              Domain,
                              [ paragraph |-> frame.paragraph,
                                document_path |-> args.document_path ])
           run == build_run(run_id, "RUNNING",
                            [provider |-> "stub", model |-> "deterministic"],
                            [allowed_tools |-> <<"sentence_retriever">>])
       IN  frame' = Update(frame, [task |-> task, run |-> run])
    /\ idCounter' = idCounter + 2
    /\ pc' = After(pc)
    /\ UNCHANGED <<args, fs, fsAtStart, outcome, notKernelVars>>

Unrouted == [type |-> "MODEL", name |-> "unrouted", config |-> EmptyDict]

StatusAfterExecution_Verified == "VERIFIED"

\* the status a step gets when its executor has run (lines 326, 390, 453)
StatusAfterExecution == "EXECUTED"

\* lines 297-316
S1Create ==
    /\ pc = "s1_create"
    /\ LET s1_id == NewId("step", idCounter + 1)
           s1 == Put(build_step(s1_id, 0,
                                "Extract the primary claim from the paragraph",
                                "PENDING", <<>>, Unrouted, FALSE, <<>>),
                     "revisions", <<>>)
       IN  frame' = Update(frame,
                [ s1_id |-> s1_id,
                  s1 |-> resolve_and_attach_executor(frame.policy, Domain, s1) ])
    /\ idCounter' = idCounter + 1
    /\ pc' = After(pc)
    /\ UNCHANGED <<args, fs, fsAtStart, outcome, notKernelVars>>

\* lines 318-329
S1Execute ==
    /\ pc = "s1_execute"
    /\ LET s1 == frame.s1
           s1_output ==
               IF s1.executor.name = "gpt_stub"
               THEN gpt_stub_execute(s1, [inputs |-> [paragraph |-> frame.paragraph]])
               ELSE frame.paragraph
       IN  frame' = Put(frame, "s1",
                Update(s1, [ status |-> StatusAfterExecution,
                             execution_output |-> s1_output,
                             execution |-> [executor_used |-> s1.executor.name] ]))
    /\ pc' = After(pc)
    /\ UNCHANGED <<args, fs, fsAtStart, outcome, idCounter, notKernelVars>>

\* lines 331-335
S1Verify ==
    /\ pc = "s1_verify"
    /\ LET s1 == apply_step_policy(frame.policy, Domain, <<frame.s1>>)[1]
           s1_verification == verify_step(s1)
       IN  IF s1_verification.raised
           THEN Fail(s1_verification)
           ELSE /\ frame' = Put(frame, "s1",
                        Update(s1, [ verification |-> s1_verification.value,
                                     status |-> "VERIFIED" ]))
                /\ pc' = After(pc)
                /\ UNCHANGED outcome
    /\ UNCHANGED <<args, fs, fsAtStart, idCounter, notKernelVars>>

\* lines 337-355
S2Create ==
    /\ pc = "s2_create"
    /\ LET s2_id == NewId("step", idCounter + 1)
           s2 == build_step(s2_id, 1,
                            "Retrieve evidence snippets from the document",
                            "PENDING", <<frame.s1_id>>, Unrouted, TRUE, <<>>)
       IN  frame' = Update(frame,
                [ s2_id |-> s2_id,
                  s2 |-> resolve_and_attach_executor(frame.policy, Domain, s2) ])
    /\ idCounter' = idCounter + 1
    /\ pc' = After(pc)
    /\ UNCHANGED <<args, fs, fsAtStart, outcome, notKernelVars>>

\* lines 357-394
S2Execute ==
    /\ pc = "s2_execute"
    /\ LET s2 == frame.s2
           s2_context == [ inputs |-> [paragraph |-> frame.paragraph],
                           document_text |-> frame.document_text ]
           routed == s2.executor.name = "retriever_stub"
           retriever_result == retriever_stub_execute(s2, s2_context)
           evidence_results ==
               IF routed THEN retriever_result.retrieved_evidence
               ELSE retrieve_evidence(frame.paragraph, frame.document_text, 3)
           s2_output ==
               IF routed THEN retriever_result.summary
               ELSE <<"Retrieved", ToString(Len(evidence_results)), "evidence sentences">>
           s2_evidence ==
               [ idx \in 1..Len(evidence_results) |->
                   build_evidence(NewId("ev", idCounter + idx), "sentence_retriever",
                       [ sentence |-> evidence_results[idx].content,
                         relevance_score |-> evidence_results[idx].relevance_score,
                         sentence_index |-> evidence_results[idx].sentence_index ]) ]
       IN  /\ frame' = Update(frame,
                [ evidence_results |-> evidence_results,
                  s2_evidence |-> s2_evidence,
                  s2 |-> Update(s2, [ status |-> StatusAfterExecution,
                                      execution_output |-> s2_output,
                                      evidence |-> s2_evidence,
                                      execution |-> [executor_used |-> s2.executor.name] ]) ])
           /\ idCounter' = idCounter + Len(evidence_results)
    /\ pc' = After(pc)
    /\ UNCHANGED <<args, fs, fsAtStart, outcome, notKernelVars>>

\* lines 396-400
S2Verify ==
    /\ pc = "s2_verify"
    /\ LET s2 == apply_step_policy(frame.policy, Domain, <<frame.s2>>)[1]
           s2_verification == verify_step(s2)
       IN  IF s2_verification.raised
           THEN Fail(s2_verification)
           ELSE /\ frame' = Put(frame, "s2",
                        Update(s2, [ verification |-> s2_verification.value,
                                     status |-> "VERIFIED" ]))
                /\ pc' = After(pc)
                /\ UNCHANGED outcome
    /\ UNCHANGED <<args, fs, fsAtStart, idCounter, notKernelVars>>

\* lines 402-423
S3Create ==
    /\ pc = "s3_create"
    /\ LET s3_id == NewId("step", idCounter + 1)
           s3 == build_step(s3_id, 2,
                            "Verify whether the evidence supports the claim",
                            "PENDING", <<frame.s1_id, frame.s2_id>>, Unrouted, TRUE, <<>>)
           routed == resolve_and_attach_executor(frame.policy, Domain, s3)
       IN  frame' = Update(frame,
                [ s3_id |-> s3_id,
                  s3 |-> apply_step_policy(frame.policy, Domain, <<routed>>)[1] ])
    /\ idCounter' = idCounter + 1
    /\ pc' = After(pc)
    /\ UNCHANGED <<args, fs, fsAtStart, outcome, notKernelVars>>

\* lines 425-464, for the verdict (status, confidence, issues) that the
\* verifier returned at lines 430-432
S3ExecuteOn(verdict) ==
    /\ pc = "s3_execute"
    /\ LET s3 == frame.s3
           s2_evidence == frame.s2_evidence
           evidence_sentences ==
               [i \in 1..Len(s2_evidence) |-> s2_evidence[i].content.sentence]
           s3_evidence ==
               [ i \in 1..Len(s2_evidence) |->
                   build_evidence(NewId("ev", idCounter + i), "claim_verification",
                       [ sentence |-> s2_evidence[i].content.sentence,
                         relevance_score |-> s2_evidence[i].content.relevance_score,
                         verification_issues |-> verdict.issues ]) ]
           execution_output ==
               IF s3.executor.name = "o3_stub"
               THEN o3_stub_execute(s3, EmptyDict)
                    \o <<"| Verification result:", verdict.status>>
               ELSE <<"Verification result:", verdict.status>>
       IN  /\ frame' = Update(frame,
                [ evidence_sentences |-> evidence_sentences,
                  claim |-> frame.paragraph,
                  verification_status |-> verdict.status,
                  verification_confidence |-> verdict.confidence,
                  issues |-> verdict.issues,
                  s3_evidence |-> s3_evidence,
                  s3 |-> Update(s3, [ status |-> StatusAfterExecution,
                                      execution_output |-> execution_output,
                                      evidence |-> s3_evidence,
                                      execution |-> [executor_used |-> s3.executor.name] ]) ])
           /\ idCounter' = idCounter + Len(s2_evidence)
    /\ pc' = After(pc)
    /\ UNCHANGED <<args, fs, fsAtStart, outcome, notKernelVars>>

\* lines 425-464 with the rule verifier of this repository
S3Execute ==
    S3ExecuteOn(verify_claim_support(frame.paragraph,
        [i \in 1..Len(frame.s2_evidence) |-> frame.s2_evidence[i].content.sentence]))

\* "; ".join(issues)
RECURSIVE JoinIssues(_)
JoinIssues(issues) ==
    IF Len(issues) = 1 THEN issues[1]
    ELSE issues[1] \o <<"; ">> \o JoinIssues(Tail(issues))

\* lines 466-475
S3Verify ==
    /\ pc = "s3_verify"
    /\ LET s3_evidence == frame.s3_evidence
           s3_checked_evidence_ids ==
               [i \in 1..Len(s3_evidence) |-> s3_evidence[i].evidence_id]
           notes == IF frame.issues # <<>> THEN JoinIssues(frame.issues)
                    ELSE <<"No issues detected">>
       IN  frame' = Update(frame,
                [ s3_checked_evidence_ids |-> s3_checked_evidence_ids,
                  s3 |-> Update(frame.s3,
                            [ verification |->
                                build_verification(frame.verification_status,
                                                   frame.verification_confidence,
                                                   s3_checked_evidence_ids, notes),
                              status |-> "VERIFIED" ]) ])
    /\ pc' = After(pc)
    /\ UNCHANGED <<args, fs, fsAtStart, outcome, idCounter, notKernelVars>>

\* a revision for every contradicted claim, rewritten or not
revision_needed_on_verdict_alone(verification_status, rewritten_claim, paragraph) ==
    verification_status = "CONTRADICTED"

\* lines 479-483: the two conditions under which the claim is revised
revision_needed(verification_status, rewritten_claim, paragraph) ==
    verification_status = "CONTRADICTED" /\ rewritten_claim # paragraph

\* lines 477-528
Revision ==
    /\ pc = "revision"
    /\ LET rewritten_claim == rewrite_claim(frame.paragraph, frame.evidence_sentences)
           revision_id == NewId("rev", idCounter + 1)
           new_confidence == Min(frame.verification_confidence + 30, 90)
           new_verification ==
               build_verification("SUPPORTED", new_confidence,
                                  frame.s3_checked_evidence_ids,
                                  <<"Claim rewritten to match verified evidence">>)
           revision_record ==
               [ revision_id |-> revision_id,
                 reason |-> "Original claim contradicted by evidence",
                 action |-> "REWRITE_CLAIM_TO_MATCH_EVIDENCE",
                 previous_verification_status |-> "CONTRADICTED",
                 new_execution_output |-> rewritten_claim,
                 new_verification |-> new_verification ]
       IN  IF revision_needed(frame.verification_status, rewritten_claim, frame.paragraph)
           THEN /\ frame' = Update(frame,
                     [ revision_triggered |-> TRUE,
                       s1 |-> Update(frame.s1,
                                 [ revisions |-> Append(frame.s1.revisions, revision_record),
                                   execution_output |-> rewritten_claim,
                                   verification |-> new_verification ]),
                       verification_status |-> "SUPPORTED",
                       verification_confidence |-> new_confidence,
                       issues |-> << <<"Claim rewritten to match verified evidence">> >>,
                       s3 |-> Update(frame.s3,
                                 [ verification |->
                                     build_verification("SUPPORTED", new_confidence,
                                         frame.s3_checked_evidence_ids,
                                         <<"Claim revised to match evidence">>),
                                   execution_output |->
                                     <<"Verification result: SUPPORTED (after revision)">> ]),
                       claim |-> rewritten_claim,
                       paragraph |-> rewritten_claim ])
                /\ idCounter' = idCounter + 1
           ELSE /\ frame' = Put(frame, "revision_triggered", FALSE)
                /\ UNCHANGED idCounter
    /\ pc' = After(pc)
    /\ UNCHANGED <<args, fs, fsAtStart, outcome, notKernelVars>>

\* lines 530-542
ContradictionDetection ==
    /\ pc = "contradiction_detection"
    /\ LET claim_percent == extract_percent(frame.paragraph)
           contradictions ==
               IF Truthy(args.memory_path) /\ frame.prior_memory # <<>>
                  /\ claim_percent # <<>>
               THEN detect_numeric_contradictions(frame.prior_memory,
                        <<"Model", "X", "Dataset", "Y">>, claim_percent[1], "%", 5,
                        idCounter)
               ELSE <<>>
       IN  /\ frame' = Put(frame, "contradictions", contradictions)
           /\ idCounter' = idCounter + Len(contradictions)
    /\ pc' = After(pc)
    /\ UNCHANGED <<args, fs, fsAtStart, outcome, notKernelVars>>

\* lines 544-562
BuildMemoryWrites ==
    /\ pc = "memory_writes"
    /\ IF Truthy(args.memory_path)
          /\ frame.verification_status \in {"SUPPORTED", "PARTIALLY_SUPPORTED"}
       THEN /\ frame' = Put(frame, "memory_writes",
                 << [ memory_id |-> NewId("mem", idCounter + 1),
                      type |-> "FACT",
                      content |-> IF frame.evidence_sentences # <<>>
                                  THEN frame.evidence_sentences[1]
                                  ELSE frame.paragraph,
                      confidence |-> frame.verification_confidence,
                      derived_from_step_ids |-> <<frame.s2_id, frame.s3_id>> ] >>)
            /\ idCounter' = idCounter + 1
       ELSE /\ frame' = Put(frame, "memory_writes", <<>>)
            /\ UNCHANGED idCounter
    /\ pc' = After(pc)
    /\ UNCHANGED <<args, fs, fsAtStart, outcome, notKernelVars>>

\* lines 564-567
FinalizeRun ==
    /\ pc = "finalize_run"
    /\ frame' = Put(frame, "run", Put(frame.run, "status", "FINALIZED"))
    /\ pc' = After(pc)
    /\ UNCHANGED <<args, fs, fsAtStart, outcome, idCounter, notKernelVars>>

adjust_for_contradictions_once_each(verification_confidence, contradictions) ==
    Max(0, Min(100, verification_confidence - 25 * Len(contradictions)))

\* lines 584-587: "Adjust confidence if contradictions detected"
adjust_for_contradictions(verification_confidence, contradictions) ==
    IF contradictions # <<>>
    THEN Max(0, Min(100, verification_confidence - 25))
    ELSE verification_confidence

\* re.search(r"evidence shows (\d+\.?\d*)%", issue).group(1) of the last
\* issue that has it; <<>> stands for None
RECURSIVE evidence_percent_of(_)
evidence_percent_of(issues) ==
    IF issues = <<>> THEN <<>>
    ELSE LET issue == issues[Len(issues)]
             hits == { j \in 1..(Len(issue) - 1) : issue[j] = "%, evidence shows " }
         IN  IF hits # {}
             THEN <<issue[(CHOOSE j \in hits : TRUE) + 1]>>
             ELSE evidence_percent_of(SubSeq(issues, 1, Len(issues) - 1))

\* re.search(r"'([^']+)'", issue).group(1) of the last issue with
\* "Scope limitation" in it; <<>> stands for None
RECURSIVE scope_info_of(_)
scope_info_of(issues) ==
    IF issues = <<>> THEN <<>>
    ELSE LET issue == issues[Len(issues)]
         IN  IF issue[1] = "Scope limitation detected: '"
             THEN SubSeq(issue, 2, Len(issue) - 1)
             ELSE scope_info_of(SubSeq(issues, 1, Len(issues) - 1))

\* lines 599-673: the text of the conclusion
conclusion_content(paragraph, revision_triggered, contradictions, verification_status, evidence_percent, scope_info, final_confidence) ==
    LET confidence_text == <<"Confidence:", Format2f(final_confidence), ".">>
        prior_val == FormatFloat(contradictions[1].prior_value)
        curr_val == FormatFloat(contradictions[1].current_value)
        reported == IF evidence_percent # <<>> THEN evidence_percent[1] ELSE prior_val
        body ==
            IF revision_triggered
            THEN <<"The original claim was revised after contradiction.",
                   "The corrected claim states that">> \o paragraph
            ELSE IF contradictions # <<>> /\ verification_status = "WEAK"
            THEN <<"The claim is CONTRADICTED by the document, which reports",
                   reported, "% rather than", curr_val, "%.",
                   "This also conflicts with prior memory recorded from earlier verified runs.">>
            ELSE IF contradictions # <<>>
            THEN <<"The claim is PARTIALLY SUPPORTED but conflicts with prior memory.",
                   "The document reports", reported, "%,",
                   "which differs from the claimed", curr_val, "%.">>
            ELSE IF verification_status = "SUPPORTED"
            THEN <<"The claim is SUPPORTED by the evidence.",
                   "The document confirms the stated improvement.">>
            ELSE IF verification_status = "PARTIALLY_SUPPORTED"
            THEN IF evidence_percent # <<>> /\ scope_info # <<>>
                 THEN <<"The claim is PARTIALLY SUPPORTED.",
                        "The evidence reports", evidence_percent[1], "%">>
                      \o scope_info
                      \o <<", which is close to the claimed value but not identical",
                           "and does not generalize beyond that scope.">>
                 ELSE IF evidence_percent # <<>>
                 THEN <<"The claim is PARTIALLY SUPPORTED.",
                        "The evidence reports", evidence_percent[1], "%,",
                        "which differs slightly from the claimed value.">>
                 ELSE IF scope_info # <<>>
                 THEN <<"The claim is PARTIALLY SUPPORTED.",
                        "The evidence is limited to">> \o scope_info
                      \o <<"and may not generalize beyond that scope.">>
                 ELSE <<"The claim is PARTIALLY SUPPORTED.",
                        "Some aspects of the claim could not be fully verified.">>
            ELSE <<"The claim has WEAK support.",
                   "The evidence does not adequately support the stated claim.">>
        notice ==
            IF contradictions # <<>>
            THEN <<"WARNING: This claim conflicts with prior memory.",
                   "A numeric discrepancy of",
                   FormatFloat(AbsDiff(contradictions[1].current_value,
                                       contradictions[1].prior_value)),
                   "% was detected.">>
            ELSE <<>>
    IN  body \o confidence_text \o notice

\* lines 569-694
BuildFinalConclusion ==
    /\ pc = "final_conclusion"
    /\ LET contradictions == frame.contradictions
           evidence_percent == evidence_percent_of(frame.issues)
           scope_info == scope_info_of(frame.issues)
           adjusted == adjust_for_contradictions(frame.verification_confidence,
                                                 contradictions)
           final_confidence ==
               compute_final_confidence(frame.policy, Domain, adjusted,
                                        contradictions # <<>>, frame.revision_triggered)
           content ==
               conclusion_content(frame.paragraph, frame.revision_triggered,
                                  contradictions, frame.verification_status,
                                  evidence_percent, scope_info, final_confidence)
           contradiction_memory ==
               IF Truthy(args.memory_path)
               THEN [ i \in 1..Len(contradictions) |->
                        [ memory_id |-> NewId("mem", idCounter + i),
                          type |-> "CONTRADICTION",
                          content |-> contradictions[i].description,
                          confidence |-> 90,
                          derived_from_step_ids |-> <<frame.s3_id>> ] ]
               ELSE <<>>
       IN  /\ frame' = Update(frame,
                [ final_confidence |-> final_confidence,
                  memory_writes |-> frame.memory_writes \o contradiction_memory,
                  final_conclusion |->
                      build_final_conclusion(content, final_confidence,
                          <<frame.s1_id, frame.s2_id, frame.s3_id>>,
                          [ i \in 1..Len(contradictions) |->
                              contradictions[i].contradiction_id ]) ])
           /\ idCounter' = idCounter + Len(contradiction_memory)
    /\ pc' = After(pc)
    /\ UNCHANGED <<args, fs, fsAtStart, outcome, notKernelVars>>

\* lines 488-510: after a revision s1["verification"] and the last revision
\* record's "new_verification" are one and the same dict, so what
\* apply_step_policy writes into the step's verification shows in the record
shared_new_verification(s1, revision_triggered) ==
    IF revision_triggered
    THEN Put(s1, "revisions",
             [s1.revisions EXCEPT ![Len(s1.revisions)] =
                 Put(@, "new_verification", s1.verification)])
    ELSE s1

\* lines 696-702; should_block is the local of enforce_finalization_policy
EnforcePolicy ==
    /\ pc = "enforce_policy"
    /\ LET applied == apply_step_policy(frame.policy, Domain,
                                        <<frame.s1, frame.s2, frame.s3>>)
           steps == <<shared_new_verification(applied[1], frame.revision_triggered),
                      applied[2], applied[3]>>
       IN  frame' = Update(frame,
                [ s1 |-> steps[1],
                  s2 |-> steps[2],
                  s3 |-> steps[3],
                  should_block |->
                      finalization_decision(frame.policy, Domain,
                                            frame.final_conclusion, steps).should_block,
                  final_conclusion |->
                      enforce_finalization_policy(frame.policy, Domain,
                                                  frame.final_conclusion, steps) ])
    /\ pc' = After(pc)
    /\ UNCHANGED <<args, fs, fsAtStart, outcome, idCounter, notKernelVars>>

\* list(set(m["type"] for m in memory_writes)), as a set
memory_write_types(memory_writes) ==
    { memory_writes[i].type : i \in 1..Len(memory_writes) }

\* lines 704-773
AssembleDocument ==
    /\ pc = "assemble"
    /\ LET contradictions == frame.contradictions
           memory_writes == frame.memory_writes
           audit_logs ==
               << [ event |-> "EVIDENCE_RETRIEVED",
                    details |-> [ sentence_count |-> Len(frame.evidence_results),
                                  step_id |-> frame.s2_id ] ],
                  [ event |-> "VERIFICATION_COMPLETED",
                    details |-> [ status |-> frame.verification_status,
                                  confidence |-> frame.verification_confidence,
                                  step_id |-> frame.s3_id ] ] >>
               \o (IF frame.revision_triggered
                   THEN << [ event |-> "REVISION_TRIGGERED",
                             details |-> [ step_id |-> frame.s1_id,
                                           reason |-> "Original claim contradicted by evidence" ] ] >>
                   ELSE <<>>)
               \o (IF contradictions # <<>>
                   THEN << [ event |-> "CONTRADICTION_DETECTED",
                             details |-> [ count |-> Len(contradictions),
                                           severity |-> "HIGH",
                                           contradiction_ids |->
                                               [ i \in 1..Len(contradictions) |->
                                                   contradictions[i].contradiction_id ],
                                           threshold_used |-> 5 ] ] >>
                   ELSE <<>>)
               \o (IF memory_writes # <<>>
                   THEN << [ event |-> "MEMORY_WRITTEN",
                             details |-> [ count |-> Len(memory_writes),
                                           types |-> memory_write_types(memory_writes) ] ] >>
                   ELSE <<>>)
       IN  frame' = Put(frame, "rsl_document",
                [ rsl_version |-> RSL_VERSION,
                  task |-> frame.task,
                  run |-> frame.run,
                  steps |-> <<frame.s1, frame.s2, frame.s3>>,
                  contradictions |-> contradictions,
                  final_conclusion |-> frame.final_conclusion,
                  memory_writes |-> memory_writes,
                  audit |-> build_audit(KERNEL_VERSION, RSL_VERSION, audit_logs) ])
    /\ pc' = After(pc)
    /\ UNCHANGED <<args, fs, fsAtStart, outcome, idCounter, notKernelVars>>

\* lines 775-777
PersistMemoryWrites ==
    /\ pc = "persist"
    /\ LET written == IF Truthy(args.memory_path) /\ frame.memory_writes # <<>>
                      THEN append_memory(fs.memory, frame.memory_writes)
                      ELSE Return(fs.memory)
       IN  IF written.raised
           THEN Fail(written) /\ UNCHANGED fs
           ELSE /\ fs' = Put(fs, "memory", written.value)
                /\ pc' = After(pc)
                /\ UNCHANGED <<frame, outcome>>
    /\ UNCHANGED <<args, fsAtStart, idCounter, notKernelVars>>

\* line 779
ReturnDocument ==
    /\ pc = "return"
    /\ outcome' = Return(Get(frame, "rsl_document", EmptyDict))
    /\ pc' = After(pc)
    /\ UNCHANGED <<args, fs, fsAtStart, frame, idCounter, notKernelVars>>

(***************************************************************************)
(* Specifications.  Each one runs one component; the state of the others   *)
(* stays as constructed.                                                   *)
(***************************************************************************)
LedgerInit ==
    /\ ledger = NewLedger(0)
    /\ ledgerCalls = [cost |-> 0, risk |-> 0]
    /\ lastOp = "init"
    /\ vstep = EmptyDict /\ vstep0 = EmptyDict /\ vout = NotCalled
    /\ efPolicy = EmptyDict /\ efSteps = <<>> /\ efConclusion = EmptyDict
    /\ efInput = EmptyDict /\ efLocal = NotCalled
    /\ args = EmptyDict /\ fs = EmptyDict /\ fsAtStart = EmptyDict
    /\ pc = "idle" /\ frame = EmptyDict /\ outcome = NotCalled /\ idCounter = 0
    /\ call = EmptyDict /\ ret = NotCalled
    /\ spPolicy = EmptyDict /\ spSteps = <<>> /\ spSteps0 = <<>> /\ spApplied = 0
    /\ msFile = NoFile /\ msLast = [op |-> "none"] /\ writers = <<>>

LedgerNext ==
    \/ SetBaseConfidence
    \/ AddCost
    \/ AddRisk
    \/ AdjustConfidence
    \/ ForceBlock

SpecLedger == LedgerInit /\ [][LedgerNext]_vars

VerifyInit ==
    /\ vstep \in StepDicts
    /\ vstep0 = vstep
    /\ vout = NotCalled
    /\ ledger = NewLedger(0) /\ ledgerCalls = [cost |-> 0, risk |-> 0]
    /\ lastOp = "init"
    /\ efPolicy = EmptyDict /\ efSteps = <<>> /\ efConclusion = EmptyDict
    /\ efInput = EmptyDict /\ efLocal = NotCalled
    /\ args = EmptyDict /\ fs = EmptyDict /\ fsAtStart = EmptyDict
    /\ pc = "idle" /\ frame = EmptyDict /\ outcome = NotCalled /\ idCounter = 0
    /\ call = EmptyDict /\ ret = NotCalled
    /\ spPolicy = EmptyDict /\ spSteps = <<>> /\ spSteps0 = <<>> /\ spApplied = 0
    /\ msFile = NoFile /\ msLast = [op |-> "none"] /\ writers = <<>>

VerifyNext == VerifyStep

SpecVerifyStep == VerifyInit /\ [][VerifyNext]_vars

EnforceInit ==
    /\ efPolicy \in EnforcePolicies
    /\ efSteps \in EnforceStepLists
    /\ efConclusion \in
          { build_final_conclusion(<<"The claim has WEAK support.">>, c,
                                   <<"s1", "s2", "s3">>, <<>>)
            : c \in ConclusionConfidences }
    /\ efInput = [steps |-> efSteps, final_conclusion |-> efConclusion]
    /\ efLocal = NotCalled
    /\ ledger = NewLedger(0) /\ ledgerCalls = [cost |-> 0, risk |-> 0]
    /\ lastOp = "init"
    /\ vstep = EmptyDict /\ vstep0 = EmptyDict /\ vout = NotCalled
    /\ args = EmptyDict /\ fs = EmptyDict /\ fsAtStart = EmptyDict
    /\ pc = "idle" /\ frame = EmptyDict /\ outcome = NotCalled /\ idCounter = 0
    /\ call = EmptyDict /\ ret = NotCalled
    /\ spPolicy = EmptyDict /\ spSteps = <<>> /\ spSteps0 = <<>> /\ spApplied = 0
    /\ msFile = NoFile /\ msLast = [op |-> "none"] /\ writers = <<>>

EnforceNext == EnforceFinalization

SpecEnforce == EnforceInit /\ [][EnforceNext]_vars

\* a call run_paper_verification_task(paragraph, document_path, memory_path,
\* policy_path) about to start, the files in any of the states they can be in
Init ==
    /\ args \in [ paragraph : Paragraphs,
                  document_path : {"paper.txt"},
                  memory_path : MemoryPaths,
                  policy_path : {"policy.json"} ]
    /\ fs \in [ document : DocumentFiles, memory : MemoryFiles, policy : PolicyFiles ]
    /\ fsAtStart = fs
    /\ pc = "read_document"
    /\ frame = [paragraph |-> args.paragraph]
    /\ outcome = NotCalled
    /\ idCounter = 0
    /\ ledger = NewLedger(0)
    /\ ledgerCalls = [cost |-> 0, risk |-> 0]
    /\ lastOp = "init"
    /\ vstep = EmptyDict
    /\ vstep0 = EmptyDict
    /\ vout = NotCalled
    /\ efPolicy = EmptyDict
    /\ efSteps = <<>>
    /\ efConclusion = EmptyDict
    /\ efInput = EmptyDict
    /\ efLocal = NotCalled
    /\ call = EmptyDict /\ ret = NotCalled
    /\ spPolicy = EmptyDict /\ spSteps = <<>> /\ spSteps0 = <<>> /\ spApplied = 0
    /\ msFile = NoFile /\ msLast = [op |-> "none"] /\ writers = <<>>

Next ==
    \/ ReadDocument
    \/ LoadMemory
    \/ LoadPolicy
    \/ CreateTaskAndRun
    \/ S1Create
    \/ S1Execute
    \/ S1Verify
    \/ S2Create
    \/ S2Execute
    \/ S2Verify
    \/ S3Create
    \/ S3Execute
    \/ S3Verify
    \/ Revision
    \/ ContradictionDetection
    \/ BuildMemoryWrites
    \/ FinalizeRun
    \/ BuildFinalConclusion
    \/ EnforcePolicy
    \/ AssembleDocument
    \/ PersistMemoryWrites
    \/ ReturnDocument

Spec == Init /\ [][Next]_vars

(***************************************************************************)
(* Claims about run_paper_verification_task                                *)
(***************************************************************************)
C1_StepLocals == {"s1", "s2", "s3"}

C1_Status(locals, k) == IF k \in DOMAIN locals THEN locals[k].status ELSE "NOT CREATED"

C1_AllowedMoves ==
    { <<"NOT CREATED", "PENDING">>, <<"PENDING", "EXECUTED">>, <<"EXECUTED", "VERIFIED">> }

\* C1: in run_paper_verification_task the status of each of the three steps
\* changes only by being created PENDING, by PENDING -> EXECUTED or by
\* EXECUTED -> VERIFIED, so no step is VERIFIED before it was EXECUTED and no
\* status moves backwards; and every returned document has exactly three
\* steps, all of them VERIFIED.
C1_StatusMovesForwardToVerified ==
    /\ [][ \A k \in C1_StepLocals :
             \/ C1_Status(frame', k) = C1_Status(frame, k)
             \/ <<C1_Status(frame, k), C1_Status(frame', k)>> \in C1_AllowedMoves ]_vars
    /\ [] ( pc = "returned" =>
              /\ ~outcome.raised
              /\ Len(outcome.value.steps) = 3
              /\ \A i \in 1..3 : outcome.value.steps[i].status = "VERIFIED" )

C1_Witness ==
    /\ pc = "returned"
    /\ outcome.value.steps[1].status = "VERIFIED"
    /\ outcome.value.steps[2].status = "VERIFIED"
    /\ outcome.value.steps[3].status = "VERIFIED"
    /\ outcome.value.steps[3].verification.result = "PARTIALLY_SUPPORTED"

\* C2: a run that raises (missing document, missing or malformed policy,
\* malformed memory file, structural verification failure) hands the caller
\* an error and no document and leaves the memory file as it was at the
\* start of the run; the files change only in the persist block, which
\* touches only the memory file, runs after the document has been assembled
\* and is followed by nothing but the return.
C2_FailureLeavesMemoryUntouched ==
    /\ [] ( pc = "failed" =>
              /\ outcome.raised
              /\ "value" \notin DOMAIN outcome
              /\ fs = fsAtStart )
    /\ [] ( pc \notin {"return", "returned"} => fs = fsAtStart )
    /\ [][ fs' # fs =>
             /\ pc = "persist"
             /\ "rsl_document" \in DOMAIN frame
             /\ pc' = "return"
             /\ fs'.document = fs.document
             /\ fs'.policy = fs.policy ]_vars
    /\ [][ (pc = "return" \/ pc = "returned") => fs' = fs ]_vars

C2_Witness ==
    /\ pc = "failed"
    /\ outcome.error = "VerificationError"
    /\ args.memory_path = "memory.json"
    /\ fs.memory = File([json |-> "array", items |-> <<PriorFact>>])
    /\ "s1" \in DOMAIN frame
    /\ frame.s1.status = "VERIFIED"

\* C3: every returned document carries the accounting snapshot of the run,
\* and its final_conclusion.confidence equals accounting.final_confidence.
C3_ConclusionConfidenceEqualsAccounting ==
    pc = "returned" =>
        /\ "accounting" \in DOMAIN outcome.value
        /\ outcome.value.final_conclusion.confidence
              = outcome.value.accounting.final_confidence

C6_Blocked == "should_block" \in DOMAIN frame /\ frame.should_block

C6_DocumentKeys ==
    {"rsl_version", "task", "run", "steps", "contradictions", "final_conclusion",
     "memory_writes", "audit"}

\* C6: a run whose conclusion the finalization policy blocks does not fail:
\* it raises nothing, it can always take its next step until it has
\* returned, and the document it returns is complete, with run.status
\* FINALIZED, three steps, final_conclusion.confidence 0 and a content that
\* begins with the policy's block message.
C6_BlockIsNotFailure ==
    C6_Blocked =>
        /\ pc # "failed"
        /\ (outcome # NotCalled => ~outcome.raised)
        /\ pc # "returned" => ENABLED Next
        /\ pc = "returned" =>
             /\ DOMAIN outcome.value = C6_DocumentKeys
             /\ outcome.value.run.status = "FINALIZED"
             /\ Len(outcome.value.steps) = 3
             /\ outcome.value.final_conclusion.confidence = 0
             /\ Head(outcome.value.final_conclusion.content)
                   = frame.policy.global_rules.block_message

C6_Witness ==
    /\ pc = "returned"
    /\ C6_Blocked
    /\ Get(Get(frame.policy.domain_defaults, Domain, EmptyDict),
           "fail_closed_if_unverified", FALSE)
    /\ outcome.value.steps[3].verification.result = "WEAK"
    /\ outcome.value.final_conclusion.confidence = 0
    /\ frame.final_confidence > 0

(***************************************************************************)
(* verify_claim_support called on its own                                  *)
(***************************************************************************)
\* a claim that names Model X or not, states a percent or not, names
\* Dataset Y or not
ClaimText(model_x, number, dataset_y) ==
    (IF model_x THEN <<"Model", "X">> ELSE <<"The", "model">>)
    \o <<"improves", "accuracy">>
    \o (IF number # None THEN <<"by", number, "percent">> ELSE <<>>)
    \o (IF dataset_y THEN <<"on", "Dataset", "Y">> ELSE <<>>)
    \o <<".">>

SupportClaims ==
    { ClaimText(mx, n, dy) :
        mx \in BOOLEAN, n \in {None, "15", "60", "16.1"}, dy \in BOOLEAN }

\* an evidence sentence, with a scope limiter of SCOPE_LIMITERS or none
EvidenceText(model_x, number, dataset_y, limiter) ==
    ClaimText(model_x, number, dataset_y)
    \o (IF limiter = 0 THEN <<>> ELSE <<"Measured">> \o SCOPE_LIMITERS[limiter] \o <<".">>)

EvidenceSentences ==
    { EvidenceText(mx, n, dy, l) :
        mx \in BOOLEAN, n \in {None, "15", "14.8", "53.5", "15.6"}, dy \in BOOLEAN,
        l \in {0, 1, 5} }

SecondSentences ==
    { <<"Results", "vary", ".">>,
      EvidenceText(TRUE, "14.8", TRUE, 0),
      <<"The", "study", "is", "limited", "to", "one", "lab", ".">> }

SupportEvidenceLists ==
    { <<>> } \cup { <<e>> : e \in EvidenceSentences }
             \cup { <<e, f>> : e \in EvidenceSentences, f \in SecondSentences }

\* one call verify_claim_support(claim, evidence_sentences)
VerifyClaimSupport ==
    /\ ~ret.called
    /\ call.fn = "verify_claim_support"
    /\ ret' = [ called |-> TRUE,
                value |-> verify_claim_support(call.claim, call.evidence_sentences) ]
    /\ UNCHANGED <<call, notCallVars>>

ClaimSupportInit ==
    /\ call \in [ fn : {"verify_claim_support"},
                  claim : SupportClaims,
                  evidence_sentences : SupportEvidenceLists ]
    /\ ret = NotCalled
    /\ ledger = NewLedger(0) /\ ledgerCalls = [cost |-> 0, risk |-> 0] /\ lastOp = "init"
    /\ vstep = EmptyDict /\ vstep0 = EmptyDict /\ vout = NotCalled
    /\ efPolicy = EmptyDict /\ efSteps = <<>> /\ efConclusion = EmptyDict
    /\ efInput = EmptyDict /\ efLocal = NotCalled
    /\ args = EmptyDict /\ fs = EmptyDict /\ fsAtStart = EmptyDict
    /\ pc = "idle" /\ frame = EmptyDict /\ outcome = NotCalled /\ idCounter = 0
    /\ spPolicy = EmptyDict /\ spSteps = <<>> /\ spSteps0 = <<>> /\ spApplied = 0
    /\ msFile = NoFile /\ msLast = [op |-> "none"] /\ writers = <<>>

ClaimSupportNext == VerifyClaimSupport

SpecClaimSupport == ClaimSupportInit /\ [][ClaimSupportNext]_vars

C11_Has(text, phrase) == ContainsPhrase(LowerText(text), phrase)

C11_Evidence == JoinTexts(call.evidence_sentences)

C11_ClaimPercent == extract_percent(call.claim)

C11_EvidencePercent == first_evidence_percent(call.evidence_sentences)

C11_ScopeLimited ==
    \E i \in 1..Len(SCOPE_LIMITERS) : C11_Has(C11_Evidence, SCOPE_LIMITERS[i])

C11_EntityMissing ==
    \/ C11_Has(call.claim, <<"model", "x">>) /\ ~C11_Has(C11_Evidence, <<"model", "x">>)
    \/ C11_Has(call.claim, <<"dataset", "y">>) /\ ~C11_Has(C11_Evidence, <<"dataset", "y">>)

\* the difference of the two percents as decimal numbers, in tenths
C11_Difference == AbsDiff(C11_ClaimPercent[1], C11_EvidencePercent[1])

\* the first matching row of the decision table, rows 1 to 5
C11_Row ==
    IF call.evidence_sentences = <<>> THEN <<"WEAK", 30>>
    ELSE IF C11_EntityMissing THEN <<"WEAK", 35>>
    ELSE IF C11_ClaimPercent # <<>> /\ C11_EvidencePercent = <<>> THEN <<"WEAK", 40>>
    ELSE IF C11_ClaimPercent # <<>> /\ C11_EvidencePercent # <<>>
    THEN IF C11_Difference = 0
         THEN IF C11_ScopeLimited THEN <<"PARTIALLY_SUPPORTED", 75>>
              ELSE <<"SUPPORTED", 90>>
         ELSE IF C11_Difference <= 5
         THEN IF C11_ScopeLimited THEN <<"PARTIALLY_SUPPORTED", 65>>
              ELSE <<"PARTIALLY_SUPPORTED", 75>>
         ELSE <<"WEAK", 45>>
    ELSE IF C11_ScopeLimited THEN <<"PARTIALLY_SUPPORTED", 70>>
    ELSE <<"SUPPORTED", 85>>

\* C11: verify_claim_support returns the status and confidence of the first
\* matching row of the decision table, evaluated in the order 1 to 5; a
\* difference in (0, 0.5] comes with a rounding-discrepancy issue that names
\* both values.
C11_FirstMatchingRow ==
    (ret.called /\ call.fn = "verify_claim_support") =>
        /\ <<ret.value.status, ret.value.confidence>> = C11_Row
        /\ ( /\ call.evidence_sentences # <<>>
             /\ ~C11_EntityMissing
             /\ C11_ClaimPercent # <<>>
             /\ C11_EvidencePercent # <<>>
             /\ C11_Difference > 0
             /\ C11_Difference <= 5 )
           => ret.value.issues[1]
                 = <<"Rounding discrepancy: claim states ",
                     FormatFloat(C11_ClaimPercent[1]), "%, evidence shows ",
                     FormatFloat(C11_EvidencePercent[1]), "%">>

\* the same, for the percents whose float difference is their decimal one
C11_RowWhereFloatDifferenceIsExact ==
    (ret.called /\ call.fn = "verify_claim_support") =>
        \/ /\ C11_ClaimPercent # <<>>
           /\ C11_EvidencePercent # <<>>
           /\ C11_Difference = 5
           /\ FloatError(C11_ClaimPercent[1], C11_EvidencePercent[1]) > 0
        \/ <<ret.value.status, ret.value.confidence>> = C11_Row

(***************************************************************************)
(* Claims about the order of the steps of run_paper_verification_task      *)
(***************************************************************************)
C12_Actions ==
    << "Extract the primary claim from the paragraph",
       "Retrieve evidence snippets from the document",
       "Verify whether the evidence supports the claim" >>

C12_Locals == <<"s1", "s2", "s3">>

\* the steps created so far, in the order of creation
C12_Created == { i \in 1..3 : C12_Locals[i] \in DOMAIN frame }

C12_Step(i) == frame[C12_Locals[i]]

\* C12: a step exists only when every earlier step exists and is VERIFIED;
\* the i-th step has step_index i - 1 and the i-th action; its depends_on
\* holds only ids of earlier steps, among them the id of the step just
\* before it (none for S1); and a returned document has exactly these three
\* steps in this order.
C12_ThreeStepsInOrder ==
    /\ \A i \in C12_Created :
         /\ C12_Step(i).step_index = i - 1
         /\ C12_Step(i).action = C12_Actions[i]
         /\ \A j \in 1..(i - 1) :
              /\ j \in C12_Created
              /\ C12_Step(j).status = "VERIFIED"
              /\ C12_Step(j).step_id # C12_Step(i).step_id
         /\ \A d \in 1..Len(C12_Step(i).depends_on) :
              \E j \in 1..(i - 1) : C12_Step(i).depends_on[d] = C12_Step(j).step_id
         /\ i > 1 =>
              \E d \in 1..Len(C12_Step(i).depends_on) :
                 C12_Step(i).depends_on[d] = C12_Step(i - 1).step_id
    /\ pc = "returned" =>
         /\ Len(outcome.value.steps) = 3
         /\ \A i \in 1..3 :
              /\ outcome.value.steps[i] = C12_Step(i)
              /\ outcome.value.steps[i].step_index = i - 1

C12_Witness ==
    /\ pc = "returned"
    /\ outcome.value.steps[1].depends_on = <<>>
    /\ outcome.value.steps[2].depends_on = <<outcome.value.steps[1].step_id>>
    /\ outcome.value.steps[3].depends_on
          = <<outcome.value.steps[1].step_id, outcome.value.steps[2].step_id>>
    /\ outcome.value.steps[1].step_id # outcome.value.steps[2].step_id

(***************************************************************************)
(* route_executor and resolve_and_attach_executor called on their own      *)
(***************************************************************************)
RouterStepOverrides ==
    { EmptyDict, [S1 |-> "gpt_stub"], [S2 |-> "retriever_stub", S3 |-> "o3_stub"] }

RouterDomainOverrides == { EmptyDict, [research_verification |-> "o3_stub"] }

RouterPolicies ==
    { [policy_version |-> "1.0"] }
    \cup { [policy_version |-> "1.0", routing |-> EmptyDict] }
    \cup { [ policy_version |-> "1.0",
             routing |-> [ step_overrides |-> so,
                           domain_overrides |-> do,
                           default_model_executor |-> d ] ]
           : so \in RouterStepOverrides, do \in RouterDomainOverrides,
             d \in {"gpt_stub", "local_stub"} }

RouterExecutors ==
    { Str("tool"), Str("TOOL"), Str("model"),
      [type |-> "TOOL", name |-> "calculator", config |-> [precision |-> 2]],
      [type |-> "MODEL", name |-> "unrouted", config |-> EmptyDict] }

RouterSteps ==
    { build_step("step_1", i, "Retrieve evidence snippets from the document",
                 "PENDING", <<>>, ex, er, <<>>)
      : i \in 0..2, ex \in RouterExecutors, er \in BOOLEAN }

\* one call resolve_and_attach_executor(policy, domain, step); ret keeps
\* the spec route_executor returned and the step afterwards
RouteExecutor ==
    /\ ~ret.called
    /\ call.fn = "resolve_and_attach_executor"
    /\ ret' = [ called |-> TRUE,
                value |-> route_executor(call.policy, call.domain, call.step),
                step |-> resolve_and_attach_executor(call.policy, call.domain, call.step) ]
    /\ UNCHANGED <<call, notCallVars>>

RouterInit ==
    /\ call \in [ fn : {"resolve_and_attach_executor"},
                  policy : RouterPolicies,
                  domain : {Domain, "finance"},
                  step : RouterSteps ]
    /\ ret = NotCalled
    /\ ledger = NewLedger(0) /\ ledgerCalls = [cost |-> 0, risk |-> 0] /\ lastOp = "init"
    /\ vstep = EmptyDict /\ vstep0 = EmptyDict /\ vout = NotCalled
    /\ efPolicy = EmptyDict /\ efSteps = <<>> /\ efConclusion = EmptyDict
    /\ efInput = EmptyDict /\ efLocal = NotCalled
    /\ args = EmptyDict /\ fs = EmptyDict /\ fsAtStart = EmptyDict
    /\ pc = "idle" /\ frame = EmptyDict /\ outcome = NotCalled /\ idCounter = 0
    /\ spPolicy = EmptyDict /\ spSteps = <<>> /\ spSteps0 = <<>> /\ spApplied = 0
    /\ msFile = NoFile /\ msLast = [op |-> "none"] /\ writers = <<>>

RouterNext == RouteExecutor

SpecRouter == RouterInit /\ [][RouterNext]_vars

C13_Routing == IF "routing" \in DOMAIN call.policy THEN call.policy.routing ELSE EmptyDict

C13_StepOverrides == Get(C13_Routing, "step_overrides", EmptyDict)

C13_DomainOverrides == Get(C13_Routing, "domain_overrides", EmptyDict)

C13_LogicalName == "S" \o ToString(call.step.step_index + 1)

\* levels 2 to 4 of the precedence
C13_ModelName ==
    IF C13_LogicalName \in DOMAIN C13_StepOverrides THEN C13_StepOverrides[C13_LogicalName]
    ELSE IF call.domain \in DOMAIN C13_DomainOverrides THEN C13_DomainOverrides[call.domain]
    ELSE Get(C13_Routing, "default_model_executor", "gpt_stub")

C13_ToolSpec == ~IsStr(call.step.executor) /\ call.step.executor.type = "TOOL"

C13_ToolString == IsStr(call.step.executor) /\ call.step.executor.str \in {"tool", "TOOL"}

C13_OnlyExecutorChanged ==
    /\ DOMAIN ret.step = DOMAIN call.step
    /\ ret.step.executor = ret.value
    /\ \A k \in DOMAIN call.step \ {"executor"} : ret.step[k] = call.step[k]

\* C13 as stated: a step bound to a TOOL executor, as a spec or as the
\* string "tool", keeps its executor; any other step gets the MODEL spec
\* named by the precedence; only the executor field changes.
C13_ToolExecutorKept ==
    (ret.called /\ call.fn = "resolve_and_attach_executor") =>
        /\ C13_OnlyExecutorChanged
        /\ IF C13_ToolSpec \/ C13_ToolString
           THEN ret.value = call.step.executor
           ELSE ret.value = [type |-> "MODEL", name |-> C13_ModelName, config |-> EmptyDict]

\* C13 amended: a step whose executor is a spec of type TOOL keeps that spec;
\* a step whose executor is the string "tool" (in any case) gets the spec
\* {TOOL, tool_executor, {}}; any other step gets the MODEL spec named by
\* step_overrides['S{index+1}'], else domain_overrides[domain], else
\* default_model_executor; resolve_and_attach_executor stores that spec in
\* the executor field and changes nothing else.
C13_RoutingPrecedence ==
    (ret.called /\ call.fn = "resolve_and_attach_executor") =>
        /\ C13_OnlyExecutorChanged
        /\ IF C13_ToolSpec
           THEN ret.value = call.step.executor
           ELSE IF C13_ToolString
           THEN ret.value = [type |-> "TOOL", name |-> "tool_executor", config |-> EmptyDict]
           ELSE ret.value = [type |-> "MODEL", name |-> C13_ModelName, config |-> EmptyDict]

C13_Witness ==
    /\ ret.called
    /\ call.fn = "resolve_and_attach_executor"
    /\ call.step.step_index = 1
    /\ "S2" \in DOMAIN C13_StepOverrides
    /\ call.domain \in DOMAIN C13_DomainOverrides
    /\ C13_StepOverrides["S2"] # C13_DomainOverrides[call.domain]
    /\ ret.step.executor.name = "retriever_stub"

(***************************************************************************)
(* apply_step_policy applied repeatedly to one list of steps, with         *)
(* revisions recorded in between; spSteps0 is the list at the start        *)
(***************************************************************************)
MaxApplications == 2

MaxRevisions == 2

StepPolicyRequiredLists ==
    { <<>>, <<"S2">>, <<"S02">>, <<"step_1">>, <<"S1", "step_2">> }

StepPolicyRules ==
    { EmptyDict, [max_revisions_per_step |-> 1] }
    \cup { [evidence_required_steps |-> l] : l \in StepPolicyRequiredLists }
    \cup { [evidence_required_steps |-> l, max_revisions_per_step |-> m]
           : l \in StepPolicyRequiredLists, m \in {0, 1} }

StepPolicyPolicies ==
    { [policy_version |-> "1.0", domain_defaults |-> EmptyDict] }
    \cup { [policy_version |-> "1.0", domain_defaults |-> [research_verification |-> r]]
           : r \in StepPolicyRules }

StepPolicyVerifications ==
    { build_verification("VERIFIED", 95, <<>>, <<>>),
      build_verification("CONTRADICTED", 10, <<"ev_1">>, <<"Numeric mismatch">>) }

\* the step with index i: as build_step leaves it, with a None verification,
\* or with a verification attached
StepPolicySteps(i) ==
    LET built(er) == build_step(NewId("step", i + 1), i, "Verify claim against evidence",
                                "VERIFIED", <<>>, Unrouted, er, <<>>)
    IN  UNION { { built(er),
                  Put(built(er), "revisions", <<>>),
                  Put(Put(built(er), "revisions", <<>>), "verification", NoVerification) }
                \cup { Put(Put(built(er), "revisions", <<>>), "verification", v)
                       : v \in StepPolicyVerifications }
                : er \in BOOLEAN }

StepPolicyStepLists ==
    { <<s>> : s \in StepPolicySteps(0) }
    \cup { <<s, t>> : s \in StepPolicySteps(0), t \in StepPolicySteps(1) }

\* apply_step_policy(policy, domain, steps)
ApplyStepPolicy ==
    /\ spApplied < MaxApplications
    /\ spSteps' = apply_step_policy(spPolicy, Domain, spSteps)
    /\ spApplied' = spApplied + 1
    /\ UNCHANGED <<spPolicy, spSteps0, notStepPolicyVars>>

\* between two applications a revision is recorded on a step, as the kernel
\* does with s1["revisions"].append(revision_record)
RecordRevision ==
    \E i \in 1..Len(spSteps) :
        /\ "revisions" \in DOMAIN spSteps[i]
        /\ Len(spSteps[i].revisions) < MaxRevisions
        /\ spSteps' = [spSteps EXCEPT ![i] =
               Put(@, "revisions",
                   Append(@.revisions, [action |-> "REWRITE_CLAIM_TO_MATCH_EVIDENCE"]))]
        /\ UNCHANGED <<spPolicy, spSteps0, spApplied, notStepPolicyVars>>

StepPolicyInit ==
    /\ spPolicy \in StepPolicyPolicies
    /\ spSteps \in StepPolicyStepLists
    /\ spSteps0 = spSteps
    /\ spApplied = 0
    /\ ledger = NewLedger(0) /\ ledgerCalls = [cost |-> 0, risk |-> 0] /\ lastOp = "init"
    /\ vstep = EmptyDict /\ vstep0 = EmptyDict /\ vout = NotCalled
    /\ efPolicy = EmptyDict /\ efSteps = <<>> /\ efConclusion = EmptyDict
    /\ efInput = EmptyDict /\ efLocal = NotCalled
    /\ args = EmptyDict /\ fs = EmptyDict /\ fsAtStart = EmptyDict
    /\ pc = "idle" /\ frame = EmptyDict /\ outcome = NotCalled /\ idCounter = 0
    /\ call = EmptyDict /\ ret = NotCalled
    /\ msFile = NoFile /\ msLast = [op |-> "none"] /\ writers = <<>>

StepPolicyNext == ApplyStepPolicy \/ RecordRevision

SpecStepPolicy == StepPolicyInit /\ [][StepPolicyNext]_vars

C14_RequiredSteps ==
    Get(Get(spPolicy.domain_defaults, Domain, EmptyDict), "evidence_required_steps", <<>>)

C14_Listed(name) == \E k \in 1..Len(C14_RequiredSteps) : C14_RequiredSteps[k] = name

C14_LogicalName(step) == "S" \o ToString(step.step_index + 1)

C14_ListedByName(step) == C14_Listed(C14_LogicalName(step)) \/ C14_Listed(step.step_id)

\* the digits of an identifier are read as a number: "S02" names "S2"
C14_ListedByNumber(step) ==
    \/ C14_ListedByName(step)
    \/ C14_LogicalName(step) = "S2" /\ C14_Listed("S02")

C14_Applied == spApplied' = spApplied + 1

C14_NeverCleared ==
    \A i \in 1..Len(spSteps) :
        spSteps[i].evidence_required = TRUE => spSteps'[i].evidence_required = TRUE

\* C14 as stated: an application sets evidence_required true on exactly the
\* steps whose 'S{step_index+1}' or step_id is listed, leaves the flag of
\* every other step as it was, and never turns true into false.
C14_EvidenceRequiredExactlyOnListedNames ==
    [][ C14_Applied =>
          /\ C14_NeverCleared
          /\ \A i \in 1..Len(spSteps) :
                 spSteps'[i].evidence_required =
                     (C14_ListedByName(spSteps[i]) \/ spSteps[i].evidence_required) ]_vars

\* C14 amended: as stated, where a listed identifier made of 'S' and digits
\* names the step whose index is that number minus one, so that 'S02' names
\* the same step as 'S2'.
C14_EvidenceRequiredNeverCleared ==
    [][ C14_Applied =>
          /\ C14_NeverCleared
          /\ \A i \in 1..Len(spSteps) :
                 spSteps'[i].evidence_required =
                     (C14_ListedByNumber(spSteps[i]) \/ spSteps[i].evidence_required) ]_vars

C14_Witness ==
    /\ spApplied = 2
    /\ Len(spSteps) = 2
    /\ C14_ListedByName(spSteps[2])
    /\ ~C14_ListedByNumber(spSteps[1])
    /\ ~spSteps0[2].evidence_required
    /\ spSteps0[1].evidence_required
    /\ spSteps[1].evidence_required
    /\ spSteps[2].evidence_required

C15_Rules == Get(spPolicy.domain_defaults, Domain, EmptyDict)

C15_VerificationExists(step) ==
    "verification" \in DOMAIN step /\ step.verification # NoVerification

C15_RevisionsExceed(step) ==
    /\ "max_revisions_per_step" \in DOMAIN C15_Rules
    /\ Len(Get(step, "revisions", <<>>)) > C15_Rules.max_revisions_per_step

C15_Note == "Max revisions (" \o ToString(C15_Rules.max_revisions_per_step) \o ") exceeded."

C15_Overwritten(before, after) ==
    /\ after.result = "UNKNOWN"
    /\ DOMAIN after = DOMAIN before \cup {"notes"}
    /\ \A k \in DOMAIN before \ {"result", "notes"} : after[k] = before[k]
    /\ LET old == Get(before, "notes", <<>>)
       IN  /\ Len(after.notes) = Len(old) + 1
           /\ SubSeq(after.notes, 1, Len(old)) = old
           /\ after.notes[Len(old) + 1] \in {C15_Note, "; " \o C15_Note}

C15_SameVerification(before, after) ==
    /\ ("verification" \in DOMAIN after) = ("verification" \in DOMAIN before)
    /\ "verification" \in DOMAIN before => after.verification = before.verification

\* C15: an application overwrites a step's verification result to UNKNOWN
\* and appends the note exactly when the step has more revisions than
\* max_revisions_per_step and has a verification; the verification of every
\* other step is left as it was.
C15_UnknownExactlyWhenRevisionsExceed ==
    [][ (spApplied' = spApplied + 1) =>
          \A i \in 1..Len(spSteps) :
              IF C15_RevisionsExceed(spSteps[i]) /\ C15_VerificationExists(spSteps[i])
              THEN C15_Overwritten(spSteps[i].verification, spSteps'[i].verification)
              ELSE C15_SameVerification(spSteps[i], spSteps'[i]) ]_vars

C15_Witness ==
    /\ spApplied = 2
    /\ Len(spSteps) = 2
    /\ \A i \in 1..2 : "revisions" \in DOMAIN spSteps[i] /\ C15_VerificationExists(spSteps[i])
    /\ spSteps0[1].verification.result = "VERIFIED"
    /\ spSteps[1].verification.result = "UNKNOWN"
    /\ Len(spSteps[1].revisions) = 2
    /\ Len(spSteps[2].revisions) = 1
    /\ spSteps[2].verification.result = "CONTRADICTED"
    /\ C15_Rules.max_revisions_per_step = 1

(***************************************************************************)
(* compute_final_confidence called on its own; confidences and penalties   *)
(* in hundredths                                                           *)
(***************************************************************************)
ConfidencePenalties == {0 - 30, 0, 5, 20, 150}

ConfidenceRules ==
    { EmptyDict }
    \cup { [contradiction_penalty |-> c] : c \in ConfidencePenalties }
    \cup { [revision_penalty |-> v] : v \in ConfidencePenalties }
    \cup { [contradiction_penalty |-> c, revision_penalty |-> v]
           : c \in ConfidencePenalties, v \in ConfidencePenalties }

ConfidencePolicies ==
    { [policy_version |-> "1.0"], [policy_version |-> "1.0", domain_defaults |-> EmptyDict] }
    \cup { [policy_version |-> "1.0", domain_defaults |-> [research_verification |-> r]]
           : r \in ConfidenceRules }

ConfidenceBases == {0 - 20, 0, 10, 45, 75, 95, 100, 130}

ComputeFinalConfidence ==
    /\ ~ret.called
    /\ call.fn = "compute_final_confidence"
    /\ ret' = [ called |-> TRUE,
                value |-> compute_final_confidence(call.policy, call.domain,
                              call.base_confidence, call.had_contradiction,
                              call.had_revision) ]
    /\ UNCHANGED <<call, notCallVars>>

FinalConfidenceInit ==
    /\ call \in [ fn : {"compute_final_confidence"},
                  policy : ConfidencePolicies,
                  domain : {Domain, "finance"},
                  base_confidence : ConfidenceBases,
                  had_contradiction : BOOLEAN,
                  had_revision : BOOLEAN ]
    /\ ret = NotCalled
    /\ ledger = NewLedger(0) /\ ledgerCalls = [cost |-> 0, risk |-> 0] /\ lastOp = "init"
    /\ vstep = EmptyDict /\ vstep0 = EmptyDict /\ vout = NotCalled
    /\ efPolicy = EmptyDict /\ efSteps = <<>> /\ efConclusion = EmptyDict
    /\ efInput = EmptyDict /\ efLocal = NotCalled
    /\ args = EmptyDict /\ fs = EmptyDict /\ fsAtStart = EmptyDict
    /\ pc = "idle" /\ frame = EmptyDict /\ outcome = NotCalled /\ idCounter = 0
    /\ spPolicy = EmptyDict /\ spSteps = <<>> /\ spSteps0 = <<>> /\ spApplied = 0
    /\ msFile = NoFile /\ msLast = [op |-> "none"] /\ writers = <<>>

FinalConfidenceNext == ComputeFinalConfidence

SpecFinalConfidence == FinalConfidenceInit /\ [][FinalConfidenceNext]_vars

C16_DomainPresent ==
    /\ "domain_defaults" \in DOMAIN call.policy
    /\ call.domain \in DOMAIN call.policy.domain_defaults

C16_Penalty(key) ==
    IF C16_DomainPresent /\ key \in DOMAIN call.policy.domain_defaults[call.domain]
    THEN call.policy.domain_defaults[call.domain][key]
    ELSE 0

C16_Indicator(flag) == IF flag THEN 1 ELSE 0

C16_Clamp01(x) == IF x < 0 THEN 0 ELSE IF x > 100 THEN 100 ELSE x

\* C16: the result is clamp01(base - contradiction_penalty * [had_contradiction]
\* - revision_penalty * [had_revision]), so it lies in [0, 1], and both
\* penalties count as 0 when the policy has no entry for the domain.
C16_ClampedBaseMinusPenalties ==
    (ret.called /\ call.fn = "compute_final_confidence") =>
        /\ ret.value = C16_Clamp01(call.base_confidence
                           - C16_Penalty("contradiction_penalty") * C16_Indicator(call.had_contradiction)
                           - C16_Penalty("revision_penalty") * C16_Indicator(call.had_revision))
        /\ ret.value >= 0
        /\ ret.value <= 100
        /\ ~C16_DomainPresent => ret.value = C16_Clamp01(call.base_confidence)

C16_Witness ==
    /\ ret.called
    /\ call.fn = "compute_final_confidence"
    /\ call.had_contradiction
    /\ call.had_revision
    /\ C16_Penalty("contradiction_penalty") = 20
    /\ C16_Penalty("revision_penalty") = 5
    /\ call.base_confidence = 75
    /\ ret.value = 50

(***************************************************************************)
(* detect_numeric_contradictions called on its own                         *)
(***************************************************************************)
MaxMemoryItems == 2

FactAbout(memory_id, number) ==
    [ memory_id |-> memory_id,
      type |-> "FACT",
      content |-> Claim(number),
      confidence |-> 95,
      derived_from_step_ids |-> <<"step_3">> ]

DetectorMemoryItems ==
    { PriorFact,
      FactAbout("mem_1", "15.6"),
      FactAbout("mem_2", "20"),
      [ memory_id |-> "mem_3", type |-> "FACT", content |-> ClaimWithoutNumber ],
      [ memory_id |-> "mem_4", type |-> "FACT",
        content |-> <<"Model", "Z", "improves", "accuracy", "by", "20", "percent",
                      "on", "Dataset", "Y", ".">> ],
      [ memory_id |-> "mem_5", type |-> "CONTRADICTION", content |-> Claim("20") ],
      [ type |-> "FACT", content |-> Claim("60") ] }

DetectorMemoryLists ==
    UNION { [1..n -> DetectorMemoryItems] : n \in 0..MaxMemoryItems }

DetectNumericContradictions ==
    /\ ~ret.called
    /\ call.fn = "detect_numeric_contradictions"
    /\ ret' = [ called |-> TRUE,
                value |-> detect_numeric_contradictions(call.memory_items,
                              call.current_subject, call.current_value, call.unit,
                              call.threshold, 0),
                memory_items |-> call.memory_items ]
    /\ UNCHANGED <<call, notCallVars>>

DetectorInit ==
    /\ call \in [ fn : {"detect_numeric_contradictions"},
                  memory_items : DetectorMemoryLists,
                  current_subject : { <<"Model", "X", "Dataset", "Y">> },
                  current_value : {148, 150, 161},
                  unit : {"%"},
                  threshold : {0, 5} ]
    /\ ret = NotCalled
    /\ ledger = NewLedger(0) /\ ledgerCalls = [cost |-> 0, risk |-> 0] /\ lastOp = "init"
    /\ vstep = EmptyDict /\ vstep0 = EmptyDict /\ vout = NotCalled
    /\ efPolicy = EmptyDict /\ efSteps = <<>> /\ efConclusion = EmptyDict
    /\ efInput = EmptyDict /\ efLocal = NotCalled
    /\ args = EmptyDict /\ fs = EmptyDict /\ fsAtStart = EmptyDict
    /\ pc = "idle" /\ frame = EmptyDict /\ outcome = NotCalled /\ idCounter = 0
    /\ spPolicy = EmptyDict /\ spSteps = <<>> /\ spSteps0 = <<>> /\ spApplied = 0
    /\ msFile = NoFile /\ msLast = [op |-> "none"] /\ writers = <<>>

DetectorNext == DetectNumericContradictions

SpecDetector == DetectorInit /\ [][DetectorNext]_vars

C17_Called == ret.called /\ call.fn = "detect_numeric_contradictions"

C17_Percent(item) == extract_percent(Get(item, "content", <<>>))

C17_Candidate(item) ==
    /\ Get(item, "type", None) = "FACT"
    /\ mentions_subject(Get(item, "content", <<>>), call.current_subject)
    /\ C17_Percent(item) # <<>>

\* the memory item differs from current_value by strictly more than threshold
C17_Differs(item) ==
    /\ C17_Candidate(item)
    /\ AbsDiff(C17_Percent(item)[1], call.current_value) > call.threshold

\* the positions, in memory order, of the items from position i on that differ
RECURSIVE C17_Differing(_)
C17_Differing(i) ==
    IF i > Len(call.memory_items) THEN <<>>
    ELSE IF C17_Differs(call.memory_items[i]) THEN <<i>> \o C17_Differing(i + 1)
    ELSE C17_Differing(i + 1)

C17_OnePerPosition(positions) ==
    /\ Len(ret.value) = Len(positions)
    /\ \A k \in 1..Len(positions) :
           LET item == call.memory_items[positions[k]]
           IN  /\ ret.value[k].severity = "HIGH"
               /\ ret.value[k].prior_memory_id = Get(item, "memory_id", None)
               /\ ret.value[k].prior_value = C17_Percent(item)[1]
               /\ ret.value[k].current_value = call.current_value

\* C17: the result holds, in memory order, one HIGH contradiction for every
\* FACT item that contains all subject tokens and whose percent differs from
\* current_value by strictly more than threshold, a difference equal to the
\* threshold not being one; each carries the item's memory_id, its percent
\* and current_value; the memory list is left as it was.
C17_OneContradictionPerDifferingFact ==
    C17_Called =>
        /\ C17_OnePerPosition(C17_Differing(1))
        /\ ret.memory_items = call.memory_items

\* away from the inputs where the difference equals the threshold in
\* decimals, the result is the one C17 describes
C17_ExactWhereDifferenceIsNotTheThreshold ==
    ( /\ C17_Called
      /\ \A i \in 1..Len(call.memory_items) :
             C17_Candidate(call.memory_items[i]) =>
                 AbsDiff(C17_Percent(call.memory_items[i])[1], call.current_value)
                     # call.threshold ) =>
        /\ C17_OnePerPosition(C17_Differing(1))
        /\ ret.memory_items = call.memory_items

(***************************************************************************)
(* Claims about the confidence handed to enforce_finalization_policy       *)
(***************************************************************************)
C18_Clamp01(x) == IF x < 0 THEN 0 ELSE IF x > 100 THEN 100 ELSE x

C18_Rules == Get(Get(frame.policy, "domain_defaults", EmptyDict), Domain, EmptyDict)

C18_ContradictionPenalty == Get(C18_Rules, "contradiction_penalty", 0)

C18_RevisionPenalty ==
    IF frame.revision_triggered THEN Get(C18_Rules, "revision_penalty", 0) ELSE 0

C18_S3Confidence == frame.s3.verification.confidence

\* C18: at the call of enforce_finalization_policy the conclusion's
\* confidence is clamp01(clamp01(S3 confidence - 0.25) - contradiction_penalty
\* - revision penalty) when the run found one or more contradictions, the
\* 0.25 counted once, and clamp01(S3 confidence - revision penalty) when it
\* found none.
C18_ContradictionPenaltyLayered ==
    pc = "enforce_policy" =>
        frame.final_conclusion.confidence =
            IF frame.contradictions # <<>>
            THEN C18_Clamp01(C18_Clamp01(C18_S3Confidence - 25)
                             - C18_ContradictionPenalty - C18_RevisionPenalty)
            ELSE C18_Clamp01(C18_S3Confidence - C18_RevisionPenalty)

C18_Witness ==
    /\ pc = "enforce_policy"
    /\ Len(frame.contradictions) = 2
    /\ C18_S3Confidence = 45
    /\ C18_ContradictionPenalty = 0
    /\ frame.final_conclusion.confidence = 20

(***************************************************************************)
(* load_memory, append_memory and clear_memory called one after another on *)
(* one memory path; msLast records the last call and the file before it    *)
(***************************************************************************)
MaxStoredItems == 3

StoreWrites ==
    { <<>>,
      << FactAbout("mem_1", "15") >>,
      << [ memory_id |-> "mem_2", type |-> "CONTRADICTION",
           content |-> <<"Numeric conflict detected">>, confidence |-> 90 ] >>,
      << FactAbout("mem_3", "20"),
         [ memory_id |-> "mem_4", type |-> "CONTRADICTION",
           content |-> <<"Numeric conflict detected">>, confidence |-> 90 ] >> }

StoredLength(file) ==
    IF file.exists /\ file.content.json = "array" THEN Len(file.content.items) ELSE 0

LoadMemoryCall ==
    /\ msLast' = [ op |-> "load_memory", writes |-> <<>>, before |-> msFile,
                   result |-> load_memory(msFile) ]
    /\ UNCHANGED <<msFile, writers, notStoreVars>>

AppendMemoryCall ==
    \E writes \in StoreWrites :
        /\ StoredLength(msFile) + Len(writes) <= MaxStoredItems
        /\ LET result == append_memory(msFile, writes)
           IN  /\ msFile' = IF result.raised THEN msFile ELSE result.value
               /\ msLast' = [ op |-> "append_memory", writes |-> writes,
                              before |-> msFile,
                              result |-> IF result.raised THEN result ELSE Return(None) ]
        /\ UNCHANGED <<writers, notStoreVars>>

ClearMemoryCall ==
    /\ msFile' = clear_memory(msFile)
    /\ msLast' = [ op |-> "clear_memory", writes |-> <<>>, before |-> msFile,
                   result |-> Return(None) ]
    /\ UNCHANGED <<writers, notStoreVars>>

MemoryStoreInit ==
    /\ msFile \in MemoryFiles
    /\ msLast = [op |-> "none"]
    /\ writers = <<>>
    /\ ledger = NewLedger(0) /\ ledgerCalls = [cost |-> 0, risk |-> 0] /\ lastOp = "init"
    /\ vstep = EmptyDict /\ vstep0 = EmptyDict /\ vout = NotCalled
    /\ efPolicy = EmptyDict /\ efSteps = <<>> /\ efConclusion = EmptyDict
    /\ efInput = EmptyDict /\ efLocal = NotCalled
    /\ args = EmptyDict /\ fs = EmptyDict /\ fsAtStart = EmptyDict
    /\ pc = "idle" /\ frame = EmptyDict /\ outcome = NotCalled /\ idCounter = 0
    /\ call = EmptyDict /\ ret = NotCalled
    /\ spPolicy = EmptyDict /\ spSteps = <<>> /\ spSteps0 = <<>> /\ spApplied = 0

MemoryStoreNext == LoadMemoryCall \/ AppendMemoryCall \/ ClearMemoryCall

SpecMemoryStore == MemoryStoreInit /\ [][MemoryStoreNext]_vars

C19_Readable(file) == ~load_memory(file).raised

C19_Stored(file) == load_memory(file).value

C19_IsPrefix(s, t) == Len(s) <= Len(t) /\ SubSeq(t, 1, Len(s)) = s

\* C19: after a call that returned, the array stored in the file is: the
\* previous array followed by writes, for append_memory(writes); unchanged,
\* with the file itself, for load_memory and for an append of the empty
\* list; empty for clear_memory.  Only clear_memory shortens it.
C19_GrowsOnlyBySuffix ==
    msLast.op # "none" =>
        /\ (msLast.op = "load_memory") => msFile = msLast.before
        /\ (msLast.op = "append_memory" /\ msLast.writes = <<>>) => msFile = msLast.before
        /\ (msLast.op = "append_memory" /\ msLast.result.raised) => msFile = msLast.before
        /\ (msLast.op = "append_memory" /\ ~msLast.result.raised /\ msLast.writes # <<>>) =>
               /\ C19_Readable(msLast.before)
               /\ C19_Readable(msFile)
               /\ C19_Stored(msFile) = C19_Stored(msLast.before) \o msLast.writes
        /\ (msLast.op = "clear_memory") =>
               C19_Readable(msFile) /\ C19_Stored(msFile) = <<>>
        /\ (msLast.op # "clear_memory" /\ C19_Readable(msLast.before)) =>
               /\ C19_Readable(msFile)
               /\ C19_IsPrefix(C19_Stored(msLast.before), C19_Stored(msFile))

C19_Witness ==
    /\ msLast.op = "append_memory"
    /\ Len(msLast.writes) = 2
    /\ C19_Readable(msLast.before)
    /\ Len(C19_Stored(msLast.before)) = 1
    /\ Len(C19_Stored(msFile)) = 3
    /\ C19_Stored(msFile)[1] = C19_Stored(msLast.before)[1]

(***************************************************************************)
(* Two append_memory calls on one memory path, each a read of the file     *)
(* (line 78) and, later, a write of the whole file (lines 84-86), with     *)
(* nothing to keep the other call out in between.  msLast keeps the file   *)
(* at the start and the order of the reads and writes.                     *)
(***************************************************************************)
WriterIds == {1, 2}

WriterWrites(w) ==
    { <<>>,
      << FactAbout(NewId("mem", 10 * w), "15") >>,
      << FactAbout(NewId("mem", 10 * w), "20"),
         [ memory_id |-> NewId("mem", 10 * w + 1), type |-> "CONTRADICTION",
           content |-> <<"Numeric conflict detected">>, confidence |-> 90 ] >> }

\* "if not writes: return", else "existing = load_memory(memory_path)"
WriterLoad(w) ==
    /\ writers[w].pc = "called"
    /\ LET existing == load_memory(msFile)
       IN  writers' = [writers EXCEPT ![w] =
               IF @.writes = <<>> THEN [@ EXCEPT !.pc = "returned"]
               ELSE IF existing.raised THEN [@ EXCEPT !.pc = "raised"]
               ELSE [@ EXCEPT !.pc = "loaded", !.existing = existing.value]]
    /\ msLast' = [msLast EXCEPT !.events = Append(@, <<w, "load">>)]
    /\ UNCHANGED <<msFile, notStoreVars>>

\* "json.dump(updated, f, indent=2)"
WriterDump(w) ==
    /\ writers[w].pc = "loaded"
    /\ msFile' = dump_memory(msFile, writers[w].existing, writers[w].writes)
    /\ writers' = [writers EXCEPT ![w].pc = "returned"]
    /\ msLast' = [msLast EXCEPT !.events = Append(@, <<w, "dump">>)]
    /\ UNCHANGED notStoreVars

MemoryRaceInit ==
    /\ msFile \in MemoryFiles
    /\ msLast = [op |-> "append_memory", before |-> msFile, events |-> <<>>]
    /\ writers \in { <<[pc |-> "called", writes |-> a, existing |-> <<>>],
                       [pc |-> "called", writes |-> b, existing |-> <<>>]>>
                     : a \in WriterWrites(1), b \in WriterWrites(2) }
    /\ ledger = NewLedger(0) /\ ledgerCalls = [cost |-> 0, risk |-> 0] /\ lastOp = "init"
    /\ vstep = EmptyDict /\ vstep0 = EmptyDict /\ vout = NotCalled
    /\ efPolicy = EmptyDict /\ efSteps = <<>> /\ efConclusion = EmptyDict
    /\ efInput = EmptyDict /\ efLocal = NotCalled
    /\ args = EmptyDict /\ fs = EmptyDict /\ fsAtStart = EmptyDict
    /\ pc = "idle" /\ frame = EmptyDict /\ outcome = NotCalled /\ idCounter = 0
    /\ call = EmptyDict /\ ret = NotCalled
    /\ spPolicy = EmptyDict /\ spSteps = <<>> /\ spSteps0 = <<>> /\ spApplied = 0

MemoryRaceNext == \E w \in WriterIds : WriterLoad(w) \/ WriterDump(w)

SpecMemoryRace == MemoryRaceInit /\ [][MemoryRaceNext]_vars

C20_Position(w, what) ==
    CHOOSE k \in 1..Len(msLast.events) : msLast.events[k] = <<w, what>>

C20_BothWrote ==
    \A w \in WriterIds : writers[w].pc = "returned" /\ writers[w].writes # <<>>

C20_Items == msFile.content.items

C20_Holds(w) ==
    \A k \in 1..Len(writers[w].writes) :
        \E j \in 1..Len(C20_Items) : C20_Items[j] = writers[w].writes[k]

\* both calls read the file before either rewrote it
C20_BothReadFirst ==
    \A w \in WriterIds, v \in WriterIds :
        C20_Position(w, "load") < C20_Position(v, "dump")

\* C20: once both calls have returned, the file lacks the entries of one of
\* them exactly when both read the file before either rewrote it, and then
\* it holds the old items followed by the entries of the call that wrote
\* last; when the calls ran one after the other the file holds the old items
\* followed by the entries of both, in the order of the calls.
C20_LostUpdateExactlyWhenBothReadFirst ==
    C20_BothWrote =>
        LET first == IF C20_Position(1, "dump") < C20_Position(2, "dump") THEN 1 ELSE 2
            last == 3 - first
            old == load_memory(msLast.before).value
        IN  IF C20_BothReadFirst
            THEN /\ C20_Items = old \o writers[last].writes
                 /\ ~C20_Holds(first)
            ELSE /\ C20_Items = old \o writers[first].writes \o writers[last].writes
                 /\ C20_Holds(1)
                 /\ C20_Holds(2)

C20_Witness ==
    /\ C20_BothWrote
    /\ msLast.events = << <<1, "load">>, <<2, "load">>, <<1, "dump">>, <<2, "dump">> >>
    /\ Len(load_memory(msLast.before).value) = 1
    /\ C20_Holds(2)
    /\ ~C20_Holds(1)
    /\ Len(C20_Items) = 2

(***************************************************************************)
(* Claims about the memory store on absent, empty and malformed files      *)
(***************************************************************************)
C21_AbsentOrEmpty(file) == ~file.exists \/ file.content.json = "blank"

C21_Malformed(file) == file.exists /\ file.content.json \in {"invalid", "object"}

C21_RaisedStoreError(result) == result.raised /\ result.error = "MemoryStoreError"

\* C21: load_memory leaves the file as it was, returns the empty list for
\* an absent or empty file and raises MemoryStoreError for a file holding
\* malformed JSON or a JSON value that is not an array; append_memory with
\* writes on such a file raises the same error and leaves the file as it was.
C21_LoadAndAppendOnBadFiles ==
    /\ (msLast.op = "load_memory") =>
           /\ msFile = msLast.before
           /\ C21_AbsentOrEmpty(msFile) => msLast.result = Return(<<>>)
           /\ C21_Malformed(msFile) => C21_RaisedStoreError(msLast.result)
    /\ (msLast.op = "append_memory" /\ msLast.writes # <<>> /\ C21_Malformed(msLast.before)) =>
           /\ C21_RaisedStoreError(msLast.result)
           /\ msFile = msLast.before

C21_Witness ==
    /\ msLast.op = "append_memory"
    /\ Len(msLast.writes) = 2
    /\ msLast.before.exists
    /\ msLast.before.content.json = "invalid"
    /\ msLast.result.raised
    /\ msFile = msLast.before

(***************************************************************************)
(* replay/replay_engine.py: replay_run, called on a persisted run file.    *)
(* Its result is given together with the calls of the kernel it made and   *)
(* the files it wrote.                                                     *)
(***************************************************************************)
ReplayEffect(result, kernel_calls, written) ==
    [result |-> result, kernel_calls |-> kernel_calls, written |-> written]

replay_run_domain_checked_last(file) ==
    IF ~file.exists
    THEN ReplayEffect(Raise("FileNotFoundError", <<"Run file not found">>), <<>>, {})
    ELSE IF file.content.json # "object"
    THEN ReplayEffect(Raise("JSONDecodeError", <<"run file is not valid JSON">>), <<>>, {})
    ELSE
    LET original_run == file.content.value
        task == Get(original_run, "task", EmptyDict)
        domain == Get(task, "domain", None)
        inputs == Get(task, "inputs", EmptyDict)
    IN  IF "run" \notin DOMAIN original_run
        THEN ReplayEffect(Raise("KeyError", <<"run">>), <<>>, {})
        ELSE ReplayEffect(
                 Raise("TypeError",
                       <<"run_paper_verification_task() got an unexpected keyword argument ",
                         "enable_memory_writes">>),
                 << [ paragraph |-> Get(inputs, "paragraph", NoText),
                      document_path |-> Get(inputs, "document_path", None),
                      policy_path |-> "policies/default_policy.json",
                      memory_path |-> None,
                      enable_memory_writes |-> FALSE,
                      parent_run_id |-> original_run.run.run_id ] >>,
                 {})

\* replay_engine.replay_run.  run_paper_verification_task takes paragraph,
\* document_path, memory_path and policy_path (kernel.py 217-222): the call
\* of lines 46-53 passes enable_memory_writes and parent_run_id as well, and
\* Python rejects it with TypeError before the kernel's body runs, so lines
\* 55-63 are never reached.
replay_run(file) ==
    IF ~file.exists
    THEN ReplayEffect(Raise("FileNotFoundError", <<"Run file not found">>), <<>>, {})
    ELSE IF file.content.json # "object"
    THEN ReplayEffect(Raise("JSONDecodeError", <<"run file is not valid JSON">>), <<>>, {})
    ELSE
    LET original_run == file.content.value
        task == Get(original_run, "task", EmptyDict)
        domain == Get(task, "domain", None)
        inputs == Get(task, "inputs", EmptyDict)
    IN  IF domain # "research_verification"
        THEN ReplayEffect(Raise("ValueError", <<"Replay not supported for domain: ", domain>>),
                          <<>>, {})
        ELSE IF "run" \notin DOMAIN original_run
        THEN ReplayEffect(Raise("KeyError", <<"run">>), <<>>, {})
        ELSE ReplayEffect(
                 Raise("TypeError",
                       <<"run_paper_verification_task() got an unexpected keyword argument ",
                         "enable_memory_writes">>),
                 << [ paragraph |-> Get(inputs, "paragraph", NoText),
                      document_path |-> Get(inputs, "document_path", None),
                      policy_path |-> "policies/default_policy.json",
                      memory_path |-> None,
                      enable_memory_writes |-> FALSE,
                      parent_run_id |-> original_run.run.run_id ] >>,
                 {})

ReplayTasks ==
    { [task_id |-> "task_1"] }
    \cup { [task_id |-> "task_1", inputs |-> [paragraph |-> p, document_path |-> d]]
           : p \in Paragraphs, d \in {"paper.txt", "missing.txt"} }
    \cup { build_task("task_1", "Verify the claim against the provided document", dom,
                      [paragraph |-> p, document_path |-> d])
           : dom \in {Domain, "finance", "general"}, p \in Paragraphs,
             d \in {"paper.txt", "missing.txt"} }

\* persisted RSL documents, as far as replay_run reads them
ReplayDocuments ==
    { [rsl_version |-> RSL_VERSION, task |-> t, run |-> [run_id |-> r], steps |-> <<>>]
      : t \in ReplayTasks, r \in {"run_1", "run_2"} }
    \cup { [rsl_version |-> RSL_VERSION, steps |-> <<>>],
           [rsl_version |-> RSL_VERSION,
            task |-> build_task("task_1", "Verify the claim against the provided document", Domain,
                                [paragraph |-> Claim("15"), document_path |-> "paper.txt"]),
            steps |-> <<>>] }

ReplayFiles ==
    { NoFile, File([json |-> "invalid"]) }
    \cup { File([json |-> "object", value |-> d]) : d \in ReplayDocuments }

\* one call replay_run(original_run_path); call.file is the file at that path
ReplayRun ==
    /\ ~ret.called
    /\ call.fn = "replay_run"
    /\ LET effect == replay_run(call.file)
       IN  ret' = [ called |-> TRUE,
                    result |-> effect.result,
                    kernel_calls |-> effect.kernel_calls,
                    written |-> effect.written,
                    file |-> call.file ]
    /\ UNCHANGED <<call, notCallVars>>

ReplayInit ==
    /\ call \in [fn : {"replay_run"}, file : ReplayFiles]
    /\ ret = NotCalled
    /\ ledger = NewLedger(0) /\ ledgerCalls = [cost |-> 0, risk |-> 0] /\ lastOp = "init"
    /\ vstep = EmptyDict /\ vstep0 = EmptyDict /\ vout = NotCalled
    /\ efPolicy = EmptyDict /\ efSteps = <<>> /\ efConclusion = EmptyDict
    /\ efInput = EmptyDict /\ efLocal = NotCalled
    /\ args = EmptyDict /\ fs = EmptyDict /\ fsAtStart = EmptyDict
    /\ pc = "idle" /\ frame = EmptyDict /\ outcome = NotCalled /\ idCounter = 0
    /\ spPolicy = EmptyDict /\ spSteps = <<>> /\ spSteps0 = <<>> /\ spApplied = 0
    /\ msFile = NoFile /\ msLast = [op |-> "none"] /\ writers = <<>>

ReplayNext == ReplayRun

SpecReplay == ReplayInit /\ [][ReplayNext]_vars

C22_Persisted == call.fn = "replay_run" /\ call.file.exists /\ call.file.content.json = "object"

C22_Domain == Get(Get(call.file.content.value, "task", EmptyDict), "domain", None)

\* C22: for a persisted document of domain research_verification replay_run
\* returns the pair of the original document and a fresh one, produced by
\* one kernel call on the same paragraph and document path without memory,
\* and leaves the run file as it was.
C22_ReplayReturnsOriginalAndFresh ==
    (ret.called /\ C22_Persisted /\ C22_Domain = "research_verification") =>
        /\ ~ret.result.raised
        /\ ret.result.value[1] = call.file.content.value
        /\ Len(ret.kernel_calls) = 1
        /\ ret.kernel_calls[1].memory_path = None
        /\ ret.file = call.file

\* C23: for a persisted document of any other domain, a missing domain
\* included, replay_run raises the error naming the unsupported domain,
\* having made no call of the kernel and written no file.
C23_UnsupportedDomainRaisesFirst ==
    (ret.called /\ C22_Persisted /\ C22_Domain # "research_verification") =>
        /\ ret.result.raised
        /\ ret.result.error = "ValueError"
        /\ ret.result.message = <<"Replay not supported for domain: ", C22_Domain>>
        /\ ret.kernel_calls = <<>>
        /\ ret.written = {}
        /\ ret.file = call.file

C23_Witness ==
    /\ ret.called
    /\ C22_Persisted
    /\ C22_Domain = "finance"
    /\ ret.result.raised
    /\ ret.result.error = "ValueError"
    /\ ret.kernel_calls = <<>>

(***************************************************************************)
(* diff/run_diff.py: diff_runs                                             *)
(***************************************************************************)
\* d.get(k) where the value may be compared with None: <<>> stands for None
Opt(d, k) == IF k \in DOMAIN d THEN <<d[k]>> ELSE <<>>

\* a final_conclusion that is null in the document
NoConclusion == [is_none |-> TRUE]

\* conclusion_diff = None
NoConclusionDiff == [is_none |-> TRUE]

\* the keys of {s.get("step_index"): s for s in steps}
StepIndices(steps) == { steps[i].step_index : i \in 1..Len(steps) }

\* the value of that dict at idx: the last step of the list with that index
StepAt(steps, idx) ==
    steps[CHOOSE i \in 1..Len(steps) :
              /\ steps[i].step_index = idx
              /\ \A j \in (i + 1)..Len(steps) : steps[j].step_index # idx]

\* sorted(indices)
RECURSIVE Sorted(_)
Sorted(indices) ==
    IF indices = {} THEN <<>>
    ELSE LET least == CHOOSE i \in indices : \A j \in indices : i <= j
         IN  <<least>> \o Sorted(indices \ {least})

FieldChange(field, before, after) == [field |-> field, before |-> before, after |-> after]

step_changes_with_step_id(s_a, s_b) ==
    LET v_a == Get(s_a, "verification", EmptyDict)
        v_b == Get(s_b, "verification", EmptyDict)
        rev_a == Get(s_a, "revisions", <<>>)
        rev_b == Get(s_b, "revisions", <<>>)
    IN  (IF Opt(s_a, "step_id") # Opt(s_b, "step_id")
         THEN <<FieldChange("step_id", Opt(s_a, "step_id"), Opt(s_b, "step_id"))>>
         ELSE <<>>)
        \o (IF Opt(s_a, "execution_output") # Opt(s_b, "execution_output")
         THEN <<FieldChange("execution_output", Opt(s_a, "execution_output"),
                            Opt(s_b, "execution_output"))>>
         ELSE <<>>)
        \o (IF Opt(v_a, "result") # Opt(v_b, "result")
            THEN <<FieldChange("verification.result", Opt(v_a, "result"), Opt(v_b, "result"))>>
            ELSE <<>>)
        \o (IF Opt(v_a, "confidence") # Opt(v_b, "confidence")
            THEN <<FieldChange("verification.confidence", Opt(v_a, "confidence"),
                               Opt(v_b, "confidence"))>>
            ELSE <<>>)
        \o (IF Len(rev_a) # Len(rev_b)
            THEN <<FieldChange("revisions_count", <<Len(rev_a)>>, <<Len(rev_b)>>)>>
            ELSE <<>>)

step_changes_without_confidence(s_a, s_b) ==
    LET v_a == Get(s_a, "verification", EmptyDict)
        v_b == Get(s_b, "verification", EmptyDict)
        rev_a == Get(s_a, "revisions", <<>>)
        rev_b == Get(s_b, "revisions", <<>>)
    IN  (IF Opt(s_a, "execution_output") # Opt(s_b, "execution_output")
         THEN <<FieldChange("execution_output", Opt(s_a, "execution_output"),
                            Opt(s_b, "execution_output"))>>
         ELSE <<>>)
        \o (IF Opt(v_a, "result") # Opt(v_b, "result")
            THEN <<FieldChange("verification.result", Opt(v_a, "result"), Opt(v_b, "result"))>>
            ELSE <<>>)
        \o (IF Len(rev_a) # Len(rev_b)
            THEN <<FieldChange("revisions_count", <<Len(rev_a)>>, <<Len(rev_b)>>)>>
            ELSE <<>>)

\* lines 47-84: the list `diffs` of one step present in both runs, whose
\* verification, where it has one, is a dict
step_changes(s_a, s_b) ==
    LET v_a == Get(s_a, "verification", EmptyDict)
        v_b == Get(s_b, "verification", EmptyDict)
        rev_a == Get(s_a, "revisions", <<>>)
        rev_b == Get(s_b, "revisions", <<>>)
    IN  (IF Opt(s_a, "execution_output") # Opt(s_b, "execution_output")
         THEN <<FieldChange("execution_output", Opt(s_a, "execution_output"),
                            Opt(s_b, "execution_output"))>>
         ELSE <<>>)
        \o (IF Opt(v_a, "result") # Opt(v_b, "result")
            THEN <<FieldChange("verification.result", Opt(v_a, "result"), Opt(v_b, "result"))>>
            ELSE <<>>)
        \o (IF Opt(v_a, "confidence") # Opt(v_b, "confidence")
            THEN <<FieldChange("verification.confidence", Opt(v_a, "confidence"),
                               Opt(v_b, "confidence"))>>
            ELSE <<>>)
        \o (IF Len(rev_a) # Len(rev_b)
            THEN <<FieldChange("revisions_count", <<Len(rev_a)>>, <<Len(rev_b)>>)>>
            ELSE <<>>)

\* lines 29-92: the entries of step_diffs for the indices of `order`
RECURSIVE step_diffs_of(_, _, _)
step_diffs_of(steps_a, steps_b, order) ==
    IF order = <<>> THEN <<>>
    ELSE
    LET idx == Head(order)
        rest == step_diffs_of(steps_a, steps_b, Tail(order))
    IN  IF idx \notin StepIndices(steps_a)
        THEN << [ step_index |-> idx, type |-> "ADDED",
                  details |-> "Step present in Run B but not Run A" ] >> \o rest
        ELSE IF idx \notin StepIndices(steps_b)
        THEN << [ step_index |-> idx, type |-> "REMOVED",
                  details |-> "Step present in Run A but not Run B" ] >> \o rest
        ELSE LET s_a == StepAt(steps_a, idx)
                 s_b == StepAt(steps_b, idx)
                 diffs == step_changes(s_a, s_b)
             IN  IF diffs # <<>>
                 THEN << [ step_index |-> idx,
                           step_id_a |-> Opt(s_a, "step_id"),
                           type |-> "MODIFIED",
                           changes |-> diffs ] >> \o rest
                 ELSE rest

\* v_a.get(...) on a verification that is None raises AttributeError
null_verification(steps_a, steps_b) ==
    \E idx \in StepIndices(steps_a) \cap StepIndices(steps_b) :
        \/ Get(StepAt(steps_a, idx), "verification", EmptyDict) = NoVerification
        \/ Get(StepAt(steps_b, idx), "verification", EmptyDict) = NoVerification

\* run_diff.diff_runs
diff_runs(run_a, run_b) ==
    LET steps_a == Get(run_a, "steps", <<>>)
        steps_b == Get(run_b, "steps", <<>>)
        all_indices == Sorted(StepIndices(steps_a) \cup StepIndices(steps_b))
        fc_a == Get(run_a, "final_conclusion", EmptyDict)
        fc_b == Get(run_b, "final_conclusion", EmptyDict)
    IN  IF null_verification(steps_a, steps_b)
        THEN Raise("AttributeError", <<"'NoneType' object has no attribute 'get'">>)
        ELSE IF fc_a = NoConclusion \/ fc_b = NoConclusion
        THEN Raise("AttributeError", <<"'NoneType' object has no attribute 'get'">>)
        ELSE
        LET step_diffs == step_diffs_of(steps_a, steps_b, all_indices)
            fc_diffs ==
                (IF Opt(fc_a, "content") # Opt(fc_b, "content")
                 THEN <<FieldChange("content", Opt(fc_a, "content"), Opt(fc_b, "content"))>>
                 ELSE <<>>)
                \o (IF Opt(fc_a, "confidence") # Opt(fc_b, "confidence")
                    THEN <<FieldChange("confidence", Opt(fc_a, "confidence"),
                                       Opt(fc_b, "confidence"))>>
                    ELSE <<>>)
            conclusion_diff ==
                IF fc_diffs # <<>> THEN [type |-> "MODIFIED", changes |-> fc_diffs]
                ELSE NoConclusionDiff
            summary ==
                IF step_diffs = <<>> /\ conclusion_diff = NoConclusionDiff
                THEN <<"Runs are equivalent except for metadata.">>
                ELSE (IF conclusion_diff # NoConclusionDiff
                      THEN <<"Final conclusion changed">> ELSE <<>>)
                     \o (IF conclusion_diff # NoConclusionDiff /\ step_diffs # <<>>
                         THEN <<" and ">> ELSE <<>>)
                     \o (IF step_diffs # <<>>
                         THEN <<"Step execution/verification changed in "
                                  \o ToString(Len(step_diffs)) \o " step(s)">>
                         ELSE <<>>)
                     \o <<".">>
        IN  Return([ summary |-> summary,
                     step_diffs |-> step_diffs,
                     conclusion_diff |-> conclusion_diff ])

(***************************************************************************)
(* diff_runs called on its own, on pairs of RSL documents                  *)
(***************************************************************************)
DiffBaseStep(i) ==
    Put(Put(Put(build_step(NewId("step", i + 1), i, "Verify claim against evidence",
                           "VERIFIED", <<>>, Unrouted, FALSE, <<>>),
                "execution_output", <<"Verification result:", "SUPPORTED">>),
            "verification", build_verification("SUPPORTED", 90, <<>>, <<>>)),
        "revisions", <<>>)

\* the step with index i and what the runs of the pool make of it
DiffSteps(i) ==
    LET base == DiffBaseStep(i)
    IN  { base,
          Put(base, "step_id", NewId("step", i + 7)),
          Put(base, "execution_output", <<"Verification result:", "WEAK">>),
          Put(base, "verification", build_verification("WEAK", 90, <<>>, <<>>)),
          Put(base, "verification", build_verification("SUPPORTED", 75, <<>>, <<>>)),
          Put(base, "revisions", <<[action |-> "REWRITE_CLAIM_TO_MATCH_EVIDENCE"]>>),
          Put(base, "verification", NoVerification),
          Without(base, {"verification"}),
          Without(base, {"revisions"}) }

DiffStepLists ==
    { <<>> }
    \cup { <<s>> : s \in DiffSteps(0) }
    \cup { <<s, DiffBaseStep(1)>> : s \in DiffSteps(0) }
    \cup { <<DiffBaseStep(1), s>> : s \in DiffSteps(0) }
    \cup { <<DiffBaseStep(0), s>> : s \in DiffSteps(0) }
    \cup { <<DiffBaseStep(0), DiffBaseStep(2)>>, <<DiffBaseStep(2), DiffBaseStep(1)>> }

DiffConclusions ==
    { NoConclusion,
      build_final_conclusion(<<"The claim is SUPPORTED by the evidence.">>, 90, <<>>, <<>>),
      build_final_conclusion(<<"The claim has WEAK support.">>, 45, <<>>, <<>>) }

DiffDocuments ==
    { [rsl_version |-> RSL_VERSION], [rsl_version |-> RSL_VERSION, steps |-> <<>>] }
    \cup { [rsl_version |-> RSL_VERSION, steps |-> l] : l \in DiffStepLists }
    \cup { [rsl_version |-> RSL_VERSION, steps |-> l, final_conclusion |-> c]
           : l \in { <<>>, <<DiffBaseStep(0)>>, <<DiffBaseStep(0), DiffBaseStep(1)>> },
             c \in DiffConclusions }

\* one call diff_runs(run_a, run_b)
DiffRunsCall ==
    /\ ~ret.called
    /\ call.fn = "diff_runs"
    /\ ret' = [called |-> TRUE, result |-> diff_runs(call.run_a, call.run_b)]
    /\ UNCHANGED <<call, notCallVars>>

DiffInit ==
    /\ call \in [fn : {"diff_runs"}, run_a : DiffDocuments, run_b : DiffDocuments]
    /\ ret = NotCalled
    /\ ledger = NewLedger(0) /\ ledgerCalls = [cost |-> 0, risk |-> 0] /\ lastOp = "init"
    /\ vstep = EmptyDict /\ vstep0 = EmptyDict /\ vout = NotCalled
    /\ efPolicy = EmptyDict /\ efSteps = <<>> /\ efConclusion = EmptyDict
    /\ efInput = EmptyDict /\ efLocal = NotCalled
    /\ args = EmptyDict /\ fs = EmptyDict /\ fsAtStart = EmptyDict
    /\ pc = "idle" /\ frame = EmptyDict /\ outcome = NotCalled /\ idCounter = 0
    /\ spPolicy = EmptyDict /\ spSteps = <<>> /\ spSteps0 = <<>> /\ spApplied = 0
    /\ msFile = NoFile /\ msLast = [op |-> "none"] /\ writers = <<>>

DiffNext == DiffRunsCall

SpecDiff == DiffInit /\ [][DiffNext]_vars

C25_Called == ret.called /\ call.fn = "diff_runs"

C25_StepsA == Get(call.run_a, "steps", <<>>)

C25_StepsB == Get(call.run_b, "steps", <<>>)

C25_Diffs == ret.result.value.step_diffs

C25_Entries(idx) == { k \in 1..Len(C25_Diffs) : C25_Diffs[k].step_index = idx }

C25_Type(idx) == C25_Diffs[CHOOSE k \in C25_Entries(idx) : TRUE].type

\* execution_output, verification.result, verification.confidence or the
\* number of revisions differ between the two steps
C25_Differ(s_a, s_b) ==
    \/ Opt(s_a, "execution_output") # Opt(s_b, "execution_output")
    \/ Opt(Get(s_a, "verification", EmptyDict), "result")
           # Opt(Get(s_b, "verification", EmptyDict), "result")
    \/ Opt(Get(s_a, "verification", EmptyDict), "confidence")
           # Opt(Get(s_b, "verification", EmptyDict), "confidence")
    \/ Len(Get(s_a, "revisions", <<>>)) # Len(Get(s_b, "revisions", <<>>))

C25_EntriesAsDescribed ==
    /\ \A k \in 1..(Len(C25_Diffs) - 1) : C25_Diffs[k].step_index < C25_Diffs[k + 1].step_index
    /\ \A idx \in 0..2 :
           LET in_a == idx \in StepIndices(C25_StepsA)
               in_b == idx \in StepIndices(C25_StepsB)
           IN  /\ Cardinality(C25_Entries(idx)) <= 1
               /\ (~in_a /\ ~in_b) => C25_Entries(idx) = {}
               /\ (~in_a /\ in_b) => C25_Entries(idx) # {} /\ C25_Type(idx) = "ADDED"
               /\ (in_a /\ ~in_b) => C25_Entries(idx) # {} /\ C25_Type(idx) = "REMOVED"
               /\ (in_a /\ in_b) =>
                      IF C25_Differ(StepAt(C25_StepsA, idx), StepAt(C25_StepsB, idx))
                      THEN C25_Entries(idx) # {} /\ C25_Type(idx) = "MODIFIED"
                      ELSE C25_Entries(idx) = {}
    /\ (ret.result.value.summary = <<"Runs are equivalent except for metadata.">>)
           <=> (C25_Diffs = <<>> /\ ret.result.value.conclusion_diff = NoConclusionDiff)

\* the document with every step's id replaced by one and the same id
C25_WithoutIds(run) ==
    IF "steps" \in DOMAIN run
    THEN Put(run, "steps", [i \in 1..Len(run.steps) |-> Put(run.steps[i], "step_id", "step_0")])
    ELSE run

\* the entries without the id a MODIFIED entry quotes as step_id_a
C25_Unquoted(diffs) == [k \in 1..Len(diffs) |-> Without(diffs[k], {"step_id_a"})]

C25_IdsWithoutInfluence ==
    LET other == diff_runs(C25_WithoutIds(call.run_a), C25_WithoutIds(call.run_b))
    IN  /\ ~other.raised
        /\ C25_Unquoted(other.value.step_diffs) = C25_Unquoted(C25_Diffs)
        /\ other.value.conclusion_diff = ret.result.value.conclusion_diff
        /\ other.value.summary = ret.result.value.summary

C26_NeverRaises ==
    C25_Called =>
        /\ ~ret.result.raised
        /\ DOMAIN ret.result.value = {"summary", "step_diffs", "conclusion_diff"}

\* diff_runs returns for every pair of documents in which no step present
\* in both runs has a null verification and no final_conclusion is null
C26_ReturnsUnlessNull ==
    (C25_Called /\ ~null_verification(C25_StepsA, C25_StepsB)
        /\ Get(call.run_a, "final_conclusion", EmptyDict) # NoConclusion
        /\ Get(call.run_b, "final_conclusion", EmptyDict) # NoConclusion) =>
        /\ ~ret.result.raised
        /\ DOMAIN ret.result.value = {"summary", "step_diffs", "conclusion_diff"}

(***************************************************************************)
(* scripts/run_replay_diff_demo.py: two runs of run_paper_verification_task *)
(* one after the other in one process, and diff_runs of their documents.   *)
(***************************************************************************)
\* the paragraphs of the two runs: the same claim with any of three percentages
TwoRunParagraphs == {Claim("15"), Claim("20"), Claim("60")}

\* the paragraphs of the first and of the second run: any two of the above,
\* and a claim of 15.6 percent followed by itself or by one of 16.1 percent
TwoRunPairs ==
    (TwoRunParagraphs \X TwoRunParagraphs)
    \cup { <<Claim("15.6"), Claim("15.6")>>, <<Claim("15.6"), Claim("16.1")>> }

\* the documents of the two runs: those of the single runs and one that
\* states 15.6 percent
TwoRunDocumentFiles == DocumentFiles \cup { File(<< Claim("15.6") >>) }

\* lines 85-94: the first document is kept and the kernel is called again
\* with the second paragraph on the same document, memory and policy paths
StartSecondRun ==
    /\ pc = "returned"
    /\ call.fn = "two_runs"
    /\ "first" \notin DOMAIN ret
    /\ ret' = [called |-> FALSE, first |-> outcome.value]
    /\ args' = Put(args, "paragraph", call.second_paragraph)
    /\ fsAtStart' = fs
    /\ pc' = "read_document"
    /\ frame' = [paragraph |-> call.second_paragraph]
    /\ outcome' = NotCalled
    /\ UNCHANGED <<fs, idCounter, call>>
    /\ UNCHANGED <<ledgerVars, verifyVars, enforceVars, stepPolicyVars, storeVars>>

\* line 97: diff_runs(rsl_1, rsl_2)
DiffTwoRuns ==
    /\ pc = "returned"
    /\ "first" \in DOMAIN ret
    /\ ~ret.called
    /\ ret' = [called |-> TRUE, first |-> ret.first, result |-> diff_runs(ret.first, outcome.value)]
    /\ UNCHANGED <<call, kernelVars>>
    /\ UNCHANGED <<ledgerVars, verifyVars, enforceVars, stepPolicyVars, storeVars>>

TwoRunsInit ==
    /\ args \in [ paragraph : {pair[1] : pair \in TwoRunPairs},
                  document_path : {"paper.txt"},
                  memory_path : MemoryPaths,
                  policy_path : {"policy.json"} ]
    /\ fs \in [ document : TwoRunDocumentFiles, memory : MemoryFiles, policy : PolicyFiles ]
    /\ fsAtStart = fs
    /\ pc = "read_document"
    /\ frame = [paragraph |-> args.paragraph]
    /\ outcome = NotCalled
    /\ idCounter = 0
    /\ call \in [fn : {"two_runs"}, second_paragraph : {pair[2] : pair \in TwoRunPairs}]
    /\ <<args.paragraph, call.second_paragraph>> \in TwoRunPairs
    /\ ret = NotCalled
    /\ ledger = NewLedger(0) /\ ledgerCalls = [cost |-> 0, risk |-> 0] /\ lastOp = "init"
    /\ vstep = EmptyDict /\ vstep0 = EmptyDict /\ vout = NotCalled
    /\ efPolicy = EmptyDict /\ efSteps = <<>> /\ efConclusion = EmptyDict
    /\ efInput = EmptyDict /\ efLocal = NotCalled
    /\ spPolicy = EmptyDict /\ spSteps = <<>> /\ spSteps0 = <<>> /\ spApplied = 0
    /\ msFile = NoFile /\ msLast = [op |-> "none"] /\ writers = <<>>

TwoRunsNext ==
    \/ Next
    \/ StartSecondRun
    \/ DiffTwoRuns

SpecTwoRuns == TwoRunsInit /\ [][TwoRunsNext]_vars

C24_Diffed == call.fn = "two_runs" /\ ret.called

C24_SameParagraph == call.second_paragraph = ret.first.task.inputs.paragraph

C24_MemoryDisabled == ~Truthy(args.memory_path)

\* C24: two runs of run_paper_verification_task on the same paragraph,
\* document and policy with memory disabled give documents for which
\* diff_runs reports no step diff and no conclusion diff, although the two
\* documents carry different ids.
C24_SameInputsNoDiff ==
    (C24_Diffed /\ C24_SameParagraph /\ C24_MemoryDisabled) =>
        /\ ~ret.result.raised
        /\ ret.result.value.step_diffs = <<>>
        /\ ret.result.value.conclusion_diff = NoConclusionDiff
        /\ ret.result.value.summary = <<"Runs are equivalent except for metadata.">>

C24_Witness ==
    /\ C24_Diffed
    /\ C24_SameParagraph
    /\ C24_MemoryDisabled
    /\ ret.result.value.step_diffs = <<>>
    /\ Len(ret.first.steps) = 3
    /\ ret.first.steps[3].verification.result = "PARTIALLY_SUPPORTED"
    /\ outcome.value.steps[3].verification.result = "PARTIALLY_SUPPORTED"
    /\ outcome.value.steps[3].verification # ret.first.steps[3].verification
    /\ outcome.value.steps[3].step_id # ret.first.steps[3].step_id
    /\ outcome.value.run.run_id # ret.first.run.run_id

C27_DifferentPercentage == call.second_paragraph # ret.first.task.inputs.paragraph

C27_Diffs == ret.result.value.step_diffs

C27_Modified(idx) ==
    \E k \in 1..Len(C27_Diffs) : C27_Diffs[k].step_index = idx /\ C27_Diffs[k].type = "MODIFIED"

C27_Fields(idx) ==
    LET k == CHOOSE k \in 1..Len(C27_Diffs) : C27_Diffs[k].step_index = idx
    IN  { C27_Diffs[k].changes[j].field : j \in 1..Len(C27_Diffs[k].changes) }

C27_OnlyModified == \A k \in 1..Len(C27_Diffs) : C27_Diffs[k].type = "MODIFIED"

C27_SameVerdictWitness ==
    /\ C24_Diffed
    /\ C27_DifferentPercentage
    /\ C24_MemoryDisabled
    /\ Len(ret.first.steps[3].evidence) > 0
    /\ Len(C27_Diffs) = 1
    /\ C27_Diffs[1].step_index = 0
    /\ ret.result.value.conclusion_diff = NoConclusionDiff

(***************************************************************************)
(* kernel.py 477-528: the revision block.  It is written for the verdict   *)
(* CONTRADICTED of the verifier called at lines 430-432; the runs below    *)
(* are those of run_paper_verification_task in which the verifier returns  *)
(* that verdict, next to the runs with the rule verifier's own verdict.    *)
(***************************************************************************)
ContradictedConfidences == {40, 70}

\* lines 425-464 when the verifier finds the claim contradicted
S3ExecuteContradicted ==
    \E confidence \in ContradictedConfidences :
        S3ExecuteOn([ status |-> "CONTRADICTED",
                      confidence |-> confidence,
                      issues |-> << <<"Claim contradicted by evidence">> >> ])

\* policies that allow one revision per step, or none
RevisionPolicies ==
    { [ p EXCEPT !.domain_defaults =
            [research_verification |->
                [p.domain_defaults.research_verification
                    EXCEPT !.max_revisions_per_step = m]] ]
      : p \in { q \in ValidPolicies : "routing" \in DOMAIN q /\ q.global_rules.block_if_confidence_below = 50 },
        m \in {0, 1} }

RevisionInit ==
    /\ args \in [ paragraph : Paragraphs,
                  document_path : {"paper.txt"},
                  memory_path : MemoryPaths,
                  policy_path : {"policy.json"} ]
    /\ fs \in [ document : DocumentFiles,
                memory : {NoFile, File([json |-> "array", items |-> <<PriorFact>>])},
                policy : {NoFile} \cup {File([json |-> "object", value |-> p]) : p \in RevisionPolicies} ]
    /\ fsAtStart = fs
    /\ pc = "read_document"
    /\ frame = [paragraph |-> args.paragraph]
    /\ outcome = NotCalled
    /\ idCounter = 0
    /\ ledger = NewLedger(0) /\ ledgerCalls = [cost |-> 0, risk |-> 0] /\ lastOp = "init"
    /\ vstep = EmptyDict /\ vstep0 = EmptyDict /\ vout = NotCalled
    /\ efPolicy = EmptyDict /\ efSteps = <<>> /\ efConclusion = EmptyDict
    /\ efInput = EmptyDict /\ efLocal = NotCalled
    /\ call = EmptyDict /\ ret = NotCalled
    /\ spPolicy = EmptyDict /\ spSteps = <<>> /\ spSteps0 = <<>> /\ spApplied = 0
    /\ msFile = NoFile /\ msLast = [op |-> "none"] /\ writers = <<>>

RevisionNext ==
    \/ Next
    \/ S3ExecuteContradicted

SpecRevision == RevisionInit /\ [][RevisionNext]_vars

C28_Steps(f) == <<f.s1, f.s2, f.s3>>

C28_Revisions(step) == Get(step, "revisions", <<>>)

C28_BranchTaken ==
    /\ frame.verification_status = "CONTRADICTED"
    /\ rewrite_claim(frame.paragraph, frame.evidence_sentences) # frame.paragraph

\* C28: the revision block appends one record at the end of S1's revisions
\* when S3's verdict is CONTRADICTED and rewrite_claim returned a claim other
\* than the paragraph; in every other case it records no revision and
\* rewrites no step's execution_output or verification; and no step of the
\* kernel removes or reorders revision records a step already has.
C28_RevisionOnlyWhenContradictedAndRewritten ==
    /\ [][ (pc = "revision" /\ pc' # pc) =>
             IF C28_BranchTaken
             THEN /\ Len(frame'.s1.revisions) = Len(frame.s1.revisions) + 1
                  /\ SubSeq(frame'.s1.revisions, 1, Len(frame.s1.revisions)) = frame.s1.revisions
                  /\ C28_Revisions(frame'.s2) = C28_Revisions(frame.s2)
                  /\ C28_Revisions(frame'.s3) = C28_Revisions(frame.s3)
             ELSE \A i \in 1..3 :
                      /\ C28_Revisions(C28_Steps(frame')[i]) = C28_Revisions(C28_Steps(frame)[i])
                      /\ C28_Steps(frame')[i].execution_output = C28_Steps(frame)[i].execution_output
                      /\ C28_Steps(frame')[i].verification = C28_Steps(frame)[i].verification ]_vars
    /\ [][ \A k \in {"s1", "s2", "s3"} :
             (k \in DOMAIN frame /\ k \in DOMAIN frame') =>
                 /\ Len(C28_Revisions(frame'[k])) >= Len(C28_Revisions(frame[k]))
                 /\ \A n \in 1..Len(C28_Revisions(frame[k])) :
                        frame'[k].revisions[n].revision_id = frame[k].revisions[n].revision_id ]_vars

C28_Witness ==
    /\ pc = "contradiction_detection"
    /\ frame.revision_triggered
    /\ Len(frame.s1.revisions) = 1
    /\ frame.s1.revisions[1].action = "REWRITE_CLAIM_TO_MATCH_EVIDENCE"
    /\ frame.s1.execution_output = frame.s1.revisions[1].new_execution_output

\* a run whose verdict is CONTRADICTED but whose claim rewrite_claim returns
\* unchanged: nothing is recorded
C28_NotRewrittenWitness ==
    /\ pc = "contradiction_detection"
    /\ frame.verification_status = "CONTRADICTED"
    /\ ~frame.revision_triggered
    /\ frame.s1.revisions = <<>>

C29_Returned == pc = "returned" /\ ~outcome.raised

C29_Records == outcome.value.steps[1].revisions

C29_MaxRevisions ==
    Get(Get(Get(frame.policy, "domain_defaults", EmptyDict), Domain, EmptyDict),
        "max_revisions_per_step", 100)

C29_SupportedUnlessNoRevisionAllowed ==
    (C29_Returned /\ C29_Records # <<>>) =>
        /\ Len(C29_Records) = 1
        /\ C29_Records[1].new_verification.result
               = (IF C29_MaxRevisions = 0 THEN "UNKNOWN" ELSE "SUPPORTED")
        /\ C29_Records[1].new_verification = outcome.value.steps[1].verification
        /\ C29_Records[1].new_verification.confidence \in {70, 90}

C29_UnknownWitness ==
    /\ C29_Returned
    /\ C29_Records # <<>>
    /\ C29_MaxRevisions = 0
    /\ C29_Records[1].new_verification.result = "UNKNOWN"

(***************************************************************************)
(* Claims about the adjustment that force_block records                    *)
(***************************************************************************)
C30_Adjustments == ledger.confidence_adjustments

C30_OneAppended ==
    /\ Len(C30_Adjustments') = Len(C30_Adjustments) + 1
    /\ SubSeq(C30_Adjustments', 1, Len(C30_Adjustments)) = C30_Adjustments
    /\ C30_Adjustments'[Len(C30_Adjustments')].source = "policy_block"
    /\ C30_Adjustments'[Len(C30_Adjustments')].delta = 0 - ledger.final_confidence

\* C30: force_block appends exactly one adjustment of source policy_block
\* whose delta is the negation of the final_confidence held just before the
\* call, in every ledger state, final_confidence 0.0 included, and leaves the
\* earlier adjustments in place and in order.
C30_AlwaysAppendsOne ==
    [][ (lastOp' = "force_block") => C30_OneAppended ]_vars

\* C30 as the code has it: force_block appends that one adjustment when
\* final_confidence is above 0.0 and appends nothing when it is 0.0; the
\* earlier adjustments stay in place and in order in both cases.
C30_AppendsOneWhenConfidencePositive ==
    [][ (lastOp' = "force_block") =>
          IF ledger.final_confidence > 0
          THEN C30_OneAppended
          ELSE C30_Adjustments' = C30_Adjustments ]_vars

C30_Witness ==
    /\ lastOp = "force_block"
    /\ Len(C30_Adjustments) = 2
    /\ C30_Adjustments[1].source # "policy_block"
    /\ C30_Adjustments[2].source = "policy_block"
    /\ C30_Adjustments[2].delta = 0 - Max(0, Min(100, ledger.base_confidence + C30_Adjustments[1].delta))
    /\ C30_Adjustments[2].delta < 0

\* force_block on a ledger whose final_confidence is 0.0 records nothing
C30_NothingRecordedWitness ==
    /\ lastOp = "force_block"
    /\ ledger.is_blocked
    /\ C30_Adjustments = <<>>

(***************************************************************************)
(* Claims about the verdicts of verify_claim_support and the revision      *)
(* block of run_paper_verification_task                                    *)
(***************************************************************************)
\* the verdicts of verify_claim_support over the claims and evidence lists
C31_VerifierStatuses ==
    { verify_claim_support(c, e).status : c \in SupportClaims, e \in SupportEvidenceLists }

C31_Events(document) ==
    { document.audit.logs[i].event : i \in 1..Len(document.audit.logs) }

C32_Returned == pc = "returned" /\ ~outcome.raised

C32_Items(file) ==
    IF file.exists /\ file.content.json = "array" THEN file.content.items ELSE <<>>

C32_Writes == outcome.value.memory_writes

C32_Contradictions == outcome.value.contradictions

C32_HasFact ==
    /\ Truthy(args.memory_path)
    /\ outcome.value.steps[3].verification.result \in {"SUPPORTED", "PARTIALLY_SUPPORTED"}

C32_Facts == IF C32_HasFact THEN 1 ELSE 0

\* C32: the memory_writes of a returned run are one FACT entry exactly when
\* a memory path is given and S3's verdict is SUPPORTED or
\* PARTIALLY_SUPPORTED, followed by one CONTRADICTION entry per detected
\* contradiction, and the memory file afterwards holds what it held at the
\* start followed by exactly these entries, whether the conclusion is
\* blocked or not; without a memory path contradictions and memory_writes
\* are empty, no memory is loaded, no run fails on the memory file and the
\* file stays as it was.
C32_MemoryWritesAndFile ==
    /\ C32_Returned =>
          /\ Len(C32_Writes) = C32_Facts + Len(C32_Contradictions)
          /\ C32_HasFact => C32_Writes[1].type = "FACT"
          /\ \A i \in 1..Len(C32_Contradictions) :
                 /\ C32_Writes[C32_Facts + i].type = "CONTRADICTION"
                 /\ C32_Writes[C32_Facts + i].content = C32_Contradictions[i].description
          /\ C32_Items(fs.memory) = C32_Items(fsAtStart.memory) \o C32_Writes
          /\ C32_Writes = <<>> => fs.memory = fsAtStart.memory
    /\ ~Truthy(args.memory_path) =>
          /\ fs.memory = fsAtStart.memory
          /\ "prior_memory" \in DOMAIN frame => frame.prior_memory = <<>>
          /\ pc = "failed" => outcome.error # "MemoryStoreError"
          /\ C32_Returned => C32_Contradictions = <<>> /\ C32_Writes = <<>>

C32_Witness ==
    /\ C32_Returned
    /\ Truthy(args.memory_path)
    /\ frame.should_block
    /\ Len(C32_Writes) = 2
    /\ C32_Writes[1].type = "FACT"
    /\ C32_Writes[2].type = "CONTRADICTION"
    /\ Len(C32_Items(fsAtStart.memory)) = 2
    /\ Len(C32_Items(fs.memory)) = 4

\* a run without memory path next to a memory file that cannot be loaded
C32_UnreadWitness ==
    /\ C32_Returned
    /\ ~Truthy(args.memory_path)
    /\ fs.memory.exists
    /\ fs.memory.content.json = "invalid"

(***************************************************************************)
(* Claims about two runs one after the other on the same memory path       *)
(***************************************************************************)
C33_SecondRun == call.fn = "two_runs" /\ "first" \in DOMAIN ret /\ Truthy(args.memory_path)

C33_Persisted == ret.first.memory_writes

C33_IsSuffix(tail, items) ==
    /\ Len(tail) <= Len(items)
    /\ SubSeq(items, Len(items) - Len(tail) + 1, Len(items)) = tail

\* the entry is a FACT that names Model X and Dataset Y and whose percent
\* differs from the percent of the claim by more than 0.5
C33_Conflicting(entry, claim) ==
    /\ entry.type = "FACT"
    /\ ContainsPhrase(LowerText(entry.content), <<"model", "x">>)
    /\ ContainsPhrase(LowerText(entry.content), <<"dataset", "y">>)
    /\ extract_percent(entry.content) # <<>>
    /\ extract_percent(claim) # <<>>
    /\ AbsDiff(extract_percent(entry.content)[1], extract_percent(claim)[1]) > 5

C33_About(entry) ==
    { k \in 1..Len(outcome.value.contradictions) :
        outcome.value.contradictions[k].prior_memory_id = entry.memory_id }

\* C33: when two runs execute one after the other against the same memory
\* path, the memory file at the start of the second run ends with the
\* entries the first run persisted, the second run loads that file, and the
\* second run's document reports one contradiction for each of those entries
\* that is a FACT naming Model X and Dataset Y whose percent differs from the
\* second claim's percent by more than 0.5.
C33_SecondRunReadsWhatFirstPersisted ==
    C33_SecondRun =>
        /\ C33_IsSuffix(C33_Persisted, C32_Items(fsAtStart.memory))
        /\ "prior_memory" \in DOMAIN frame => frame.prior_memory = C32_Items(fsAtStart.memory)
        /\ (pc = "returned" /\ ~outcome.raised) =>
               \A i \in 1..Len(C33_Persisted) :
                   C33_Conflicting(C33_Persisted[i], call.second_paragraph) =>
                       Cardinality(C33_About(C33_Persisted[i])) = 1

C33_Witness ==
    /\ C33_SecondRun
    /\ pc = "returned"
    /\ ~outcome.raised
    /\ ret.first.task.inputs.paragraph = Claim("15")
    /\ call.second_paragraph = Claim("20")
    /\ Len(C33_Persisted) = 1
    /\ C33_Conflicting(C33_Persisted[1], call.second_paragraph)
    /\ Len(outcome.value.contradictions) = 1
    /\ outcome.value.contradictions[1].prior_memory_id = C33_Persisted[1].memory_id

\* FACT of 15.6 percent, second claim of 16.1 percent: the two differ by 0.5,
\* not by more, and the second run reports a contradiction all the same
C33_BoundaryWitness ==
    /\ C33_SecondRun
    /\ pc = "returned"
    /\ ~outcome.raised
    /\ call.second_paragraph = Claim("16.1")
    /\ Len(C33_Persisted) = 1
    /\ ~C33_Conflicting(C33_Persisted[1], call.second_paragraph)
    /\ C33_About(C33_Persisted[1]) # {}

\* the second of two runs on the same paragraph whose first run started from
\* a memory file without entries
C34_IdenticalRerunFromEmptyMemory ==
    /\ C33_SecondRun
    /\ C24_SameParagraph
    /\ C32_Items(fsAtStart.memory) = C33_Persisted

\* C34: starting from an empty memory file, the second of two runs on the
\* same paragraph, document, policy and memory path detects no
\* contradiction, and every FACT the first run wrote records a percent
\* within 0.5 of the claim's percent.
C34_NoContradictionWithOwnFact ==
    C34_IdenticalRerunFromEmptyMemory =>
        /\ \A i \in 1..Len(C33_Persisted) :
               /\ C33_Persisted[i].type = "FACT"
               /\ ~C33_Conflicting(C33_Persisted[i], call.second_paragraph)
        /\ "contradictions" \in DOMAIN frame => frame.contradictions = <<>>
        /\ (pc = "returned" /\ ~outcome.raised) => outcome.value.contradictions = <<>>

C34_Witness ==
    /\ C34_IdenticalRerunFromEmptyMemory
    /\ pc = "returned"
    /\ ~outcome.raised
    /\ call.second_paragraph = Claim("15")
    /\ Len(C33_Persisted) = 1
    /\ extract_percent(C33_Persisted[1].content) = <<148>>
    /\ frame.prior_memory = C33_Persisted
    /\ outcome.value.contradictions = <<>>
    /\ Len(C32_Items(fs.memory)) = 2

(***************************************************************************)
(* Claims about the audit log of a returned document                       *)
(***************************************************************************)
C35_EventList(document) ==
    [i \in 1..Len(document.audit.logs) |-> document.audit.logs[i].event]

C35_Expected(document) ==
    <<"EVIDENCE_RETRIEVED", "VERIFICATION_COMPLETED">>
    \o (IF document.steps[1].revisions # <<>> THEN <<"REVISION_TRIGGERED">> ELSE <<>>)
    \o (IF document.contradictions # <<>> THEN <<"CONTRADICTION_DETECTED">> ELSE <<>>)
    \o (IF document.memory_writes # <<>> THEN <<"MEMORY_WRITTEN">> ELSE <<>>)

\* evidence is retrieved before the verdict is reached, the verdict before
\* the revision is decided, the revision before contradictions are looked
\* for, contradictions before memory writes are built, and the memory file
\* changes after all of them
C35_HappenedInThisOrder ==
    /\ "verification_status" \in DOMAIN frame => "evidence_results" \in DOMAIN frame
    /\ "revision_triggered" \in DOMAIN frame => "verification_status" \in DOMAIN frame
    /\ "contradictions" \in DOMAIN frame => "revision_triggered" \in DOMAIN frame
    /\ "memory_writes" \in DOMAIN frame => "contradictions" \in DOMAIN frame
    /\ fs.memory # fsAtStart.memory => "memory_writes" \in DOMAIN frame

\* C35: audit.logs of every returned document lists EVIDENCE_RETRIEVED,
\* VERIFICATION_COMPLETED, REVISION_TRIGGERED only if S1 was revised,
\* CONTRADICTION_DETECTED only if contradictions were found and
\* MEMORY_WRITTEN only if memory_writes is non-empty, in this order, which is
\* the order in which these things happen in the run; and MEMORY_WRITTEN is
\* present exactly when entries were appended to the memory file.
C35_AuditLogInExecutionOrder ==
    /\ C35_HappenedInThisOrder
    /\ C32_Returned =>
          /\ C35_EventList(outcome.value) = C35_Expected(outcome.value)
          /\ ("MEMORY_WRITTEN" \in C31_Events(outcome.value))
                 <=> (Len(C32_Items(fs.memory)) > Len(C32_Items(fsAtStart.memory)))

C35_Witness ==
    /\ C32_Returned
    /\ C35_EventList(outcome.value)
           = <<"EVIDENCE_RETRIEVED", "VERIFICATION_COMPLETED", "REVISION_TRIGGERED", "MEMORY_WRITTEN">>
    /\ Len(C32_Items(fs.memory)) = Len(C32_Items(fsAtStart.memory)) + 1

\* a returned document whose log has the contradiction event
C35_ContradictionWitness ==
    /\ C32_Returned
    /\ C35_EventList(outcome.value)
           = <<"EVIDENCE_RETRIEVED", "VERIFICATION_COMPLETED", "CONTRADICTION_DETECTED", "MEMORY_WRITTEN">>

(***************************************************************************)
(* Claims about the cross-references of a returned document                *)
(***************************************************************************)
C36_Set(ids) == { ids[i] : i \in 1..Len(ids) }

C36_StepIds(document) == { document.steps[i].step_id : i \in 1..Len(document.steps) }

C36_EvidenceIds(step) == { step.evidence[i].evidence_id : i \in 1..Len(step.evidence) }

C36_ChecksOwnEvidence(document) ==
    \A i \in 1..Len(document.steps) :
        C36_Set(document.steps[i].verification.checked_evidence_ids)
            \subseteq C36_EvidenceIds(document.steps[i])

C36_StepReferencesResolve(document) ==
    /\ \A i \in 1..Len(document.steps) :
           C36_Set(document.steps[i].depends_on) \subseteq C36_StepIds(document)
    /\ C36_Set(document.final_conclusion.supported_step_ids) \subseteq C36_StepIds(document)
    /\ \A i \in 1..Len(document.memory_writes) :
           C36_Set(document.memory_writes[i].derived_from_step_ids) \subseteq C36_StepIds(document)

C36_ContradictionStepsResolve(document) ==
    \A i \in 1..Len(document.contradictions) :
        C36_Set(document.contradictions[i].step_ids) \subseteq C36_StepIds(document)

C36_UnresolvedAreTheContradictions(document) ==
    document.final_conclusion.unresolved_contradictions
        = [i \in 1..Len(document.contradictions) |-> document.contradictions[i].contradiction_id]

\* C36: every cross-reference of a returned document resolves inside it:
\* checked_evidence_ids name evidence of the same step; depends_on,
\* supported_step_ids, derived_from_step_ids and the step_ids of
\* contradictions name steps of the document; unresolved_contradictions
\* lists exactly the ids of the document's contradictions.
C36_ReferencesResolve ==
    C32_Returned =>
        /\ C36_ChecksOwnEvidence(outcome.value)
        /\ C36_StepReferencesResolve(outcome.value)
        /\ C36_ContradictionStepsResolve(outcome.value)
        /\ C36_UnresolvedAreTheContradictions(outcome.value)

\* every cross-reference other than the step_ids of contradictions resolves,
\* and the step_ids of every contradiction are the one label "S3"
C36_ResolveButContradictionSteps ==
    C32_Returned =>
        /\ C36_ChecksOwnEvidence(outcome.value)
        /\ C36_StepReferencesResolve(outcome.value)
        /\ C36_UnresolvedAreTheContradictions(outcome.value)
        /\ \A i \in 1..Len(outcome.value.contradictions) :
               outcome.value.contradictions[i].step_ids = <<"S3">>

C36_LabelWitness ==
    /\ C32_Returned
    /\ Len(outcome.value.contradictions) = 1
    /\ outcome.value.contradictions[1].step_ids = <<"S3">>
    /\ "S3" \notin C36_StepIds(outcome.value)
    /\ outcome.value.memory_writes[1].derived_from_step_ids = <<outcome.value.steps[3].step_id>>

\* ---------------------------------------------------------------------------
\* Runs whose retrieval found no sentence
\* ---------------------------------------------------------------------------

C37_NothingRetrieved == "s2_evidence" \in DOMAIN frame /\ frame.s2_evidence = <<>>

C37_FailedAtS2 ==
    /\ pc = "failed"
    /\ outcome.raised
    /\ outcome.error = "VerificationError"
    /\ "s3" \notin DOMAIN frame
    /\ "s3_id" \notin DOMAIN frame

C37_StopsAtS2 ==
    [][ (pc = "s2_verify" /\ C37_NothingRetrieved)
            => (C37_FailedAtS2' /\ idCounter' = idCounter) ]_vars

C37_VerifierSeesEvidence ==
    pc \in {"s3_create", "s3_execute"} => frame.s2_evidence # <<>>

C37_ReturnedWithEvidence ==
    (pc = "returned" /\ ~outcome.raised) =>
        /\ outcome.value.steps[2].evidence # <<>>
        /\ Len(outcome.value.steps[3].evidence) = Len(outcome.value.steps[2].evidence)

\* C37: a run whose retrieval yields no sentence fails with VerificationError
\* at the structural check of S2, before S3 is created, so the claim verifier
\* is never called with an empty evidence list; every returned document has
\* evidence on S2 and as many evidence items on S3.
C37_NoEvidenceFailsAtS2 ==
    /\ C37_StopsAtS2
    /\ [](C37_VerifierSeesEvidence /\ C37_ReturnedWithEvidence)

C37_Witness == C37_FailedAtS2 /\ C37_NothingRetrieved

C37_ReturnedWitness ==
    /\ pc = "returned"
    /\ ~outcome.raised
    /\ Len(outcome.value.steps[2].evidence) = 2
    /\ Len(outcome.value.steps[3].evidence) = 2

=============================================================================
